---- MODULE Spec2Model ----
(***************************************************************************)
(* A model of the paint-by-numbers pipeline of pbnturtle: adaptive seed    *)
(* sampling, the k-d tree, palette clustering, quantization, rasterization,*)
(* border rendering, region labeling and the two entry points.             *)
(*                                                                         *)
(* Colours are color.RGBA values: four 8-bit channels.  Color.RGBA() of    *)
(* the source returns each channel times 257 (16 bit); squared distances   *)
(* are therefore 257*257 times the 8-bit squared distances computed here,  *)
(* and every comparison between two distances is unchanged.                *)
(***************************************************************************)
EXTENDS Integers, Sequences, FiniteSets, TLC

VARIABLES
    pc,               \* position of the modelled run
    img,              \* the decoded source image: [w, h, pix], pix row-major
    numPoints,        \* N, the number of seeds asked for
    numColors,        \* K, the palette size asked for
    colors,           \* generatePalette: the colours sampled from the image
    centroids,        \* kMeansClustering: the centroids chosen so far
    iter,             \* kMeansClustering: refinement rounds completed
    palette,          \* the palette returned by the palette builder
    quantizedPoints,  \* the seed slice returned by quantizePoints
    lineWidth,        \* the border width asked for
    showColors,       \* FALSE: blank (white) regions for colouring in
    useVoronoi,       \* TRUE: seed-based mode, FALSE: grid mode
    voronoi,          \* the rasterized image (pixels, row-major)
    colorIndices,     \* grid mode: the palette index of every pixel
    bordered,         \* the image after the border pass
    result,           \* the image the pipeline returns
    regions,          \* findRegions: the regions kept for labeling
    stamps,           \* the drawNumber calls made, in order: [num, X, Y]
    fills,            \* every flood fill made, in order: [ColorIndex, Pixels]
    points,           \* []Point: the seed slice handed to the stage
    kdtree,           \* *KDTree built by NewKDTree
    query,            \* the (x, y) of the last nearest-neighbour query
    nearest,          \* the index FindNearest returned for query
    request,          \* the call or HTTP request an entry point received
    maxDim,           \* the max dimension the entry point downsamples to
    errMsg,           \* the error the entry point returned, "" for none
    decoded,          \* TRUE once image.Decode has been called
    progress,         \* TRUE when a progress callback is passed (progress != nil)
    workers,          \* the rasterization goroutines: [state, sy, ey, y, x] each
    spawned,          \* the loop variable w of the loop that starts the workers
    wg,               \* the counter of the sync.WaitGroup
    progressChan,     \* the buffered channel: [len, closed]
    tracker,          \* the progress tracking goroutine: [state, completed]
    reports,          \* the callback calls the listener has returned from
    writers,          \* per pixel, the workers that have called img.Set on it
    search,           \* a call of binarySearch: [arr, value, index]
    sse               \* handleConvertSSE: the handler, its mutex and the response

vars == <<pc, img, numPoints, numColors, colors, centroids, iter, palette,
          quantizedPoints, lineWidth, showColors, useVoronoi, voronoi,
          colorIndices, bordered, result, regions, stamps, fills,
          points, kdtree, query, nearest, request, maxDim, errMsg, decoded,
          progress, workers, spawned, wg, progressChan, tracker, reports, writers,
          search, sse>>

kdVars == <<kdtree, query, nearest>>
inVars == <<img, numPoints, numColors, lineWidth, showColors, useVoronoi>>
outVars == <<voronoi, colorIndices, bordered, result, regions, stamps, fills>>
kmVars == <<colors, centroids, iter>>
palVars == <<colors, centroids, iter, palette>>
entryVars == <<request, maxDim, errMsg, decoded>>
parVars == <<progress, workers, spawned, wg, progressChan, tracker, reports, writers>>
auxVars == <<search, sse>>

\* the values of the variables a specification does not use
kdIdle == kdtree = <<>> /\ query = <<0, 0>> /\ nearest = 0
palIdle == colors = <<>> /\ centroids = <<>> /\ iter = 0 /\ palette = <<>>
optIdle == lineWidth = 0 /\ showColors = TRUE /\ useVoronoi = TRUE
outIdle ==
    /\ voronoi = <<>> /\ colorIndices = <<>> /\ bordered = <<>> /\ result = <<>>
    /\ regions = <<>> /\ stamps = <<>> /\ fills = <<>>
entryIdle == request = <<>> /\ maxDim = 0 /\ errMsg = "" /\ decoded = FALSE
\* no rasterization goroutine, channel or tracking goroutine exists yet
NotStarted == [state |-> "unspawned", sy |-> 0, ey |-> 0, y |-> 0, x |-> 0]
NoWorkers == [w \in 0 .. 7 |-> NotStarted]
NoChan == [len |-> 0, closed |-> FALSE]
NoTracker == [state |-> "none", completed |-> 0]
parStart ==
    /\ workers = NoWorkers /\ spawned = 0 /\ wg = 0
    /\ progressChan = NoChan /\ tracker = NoTracker /\ reports = <<>> /\ writers = <<>>
parIdle == progress = FALSE /\ parStart
\* no call of binarySearch on its own
NoSearch == [arr |-> <<>>, value |-> 0, index |-> 0]
\* no HTTP handler: the pipeline is called directly
NoHandler ==
    [handler |-> "none", mu |-> "free", writing |-> {}, terminal |-> "none",
     late |-> "none", run |-> "none"]
auxIdle == search = NoSearch /\ sse = NoHandler

----------------------------------------------------------------------------
(* Bounds of the k-d tree specification *)
GridSize == 3
MaxSeeds == 3

\* color.RGBA{R, G, B, A}
RGBA(r, g, b, a) == [R |-> r, G |-> g, B |-> b, A |-> a]

Black == RGBA(0, 0, 0, 255)
White == RGBA(255, 255, 255, 255)
Red == RGBA(255, 0, 0, 255)
Blue == RGBA(0, 0, 255, 255)
Gray128 == RGBA(128, 128, 128, 255)
NoColor == Black

\* an image with bounds (0,0)-(w,h), as the decoders and resizeBilinear
\* produce; pix[y*w + x] is img.At(x, y)
Image(w, h, f) == [w |-> w, h |-> h, pix |-> f]
\* img.At(x, y): the zero colour outside the bounds, as image.RGBA.At
At(im, x, y) ==
    IF x < 0 \/ x >= im.w \/ y < 0 \/ y >= im.h THEN [R |-> 0, G |-> 0, B |-> 0, A |-> 0]
    ELSE im.pix[y * im.w + x]
NoImage == Image(0, 0, <<>>)

\* type Point struct { X, Y int; Color color.Color; Index int }
Point(x, y, c, i) == [X |-> x, Y |-> y, Color |-> c, Index |-> i]

----------------------------------------------------------------------------
(* kdtree.go *)

\* a nil *kdNode
NilNode == <<>>

\* &kdNode{point, left, right, splitAxis}
kdNode(p, l, r, axis) == <<p, l, r, axis>>

NodePoint(n) == n[1]
NodeLeft(n) == n[2]
NodeRight(n) == n[3]
NodeAxis(n) == n[4]

AxisVal(p, axis) == IF axis = 0 THEN p.X ELSE p.Y

\* the inner loop of sortPointsByAxis stopping at pointVal >= keyVal
RECURSIVE sortShift_descending(_, _, _, _)
sortShift_descending(s, j, keyVal, axis) ==
    IF j >= 1 /\ ~(AxisVal(s[j], axis) >= keyVal)
    THEN sortShift_descending(s, j - 1, keyVal, axis)
    ELSE j

\* the inner loop of sortPointsByAxis: j walks left while points[j] > key
RECURSIVE sortShift(_, _, _, _)
sortShift(s, j, keyVal, axis) ==
    IF j >= 1 /\ ~(AxisVal(s[j], axis) <= keyVal)
    THEN sortShift(s, j - 1, keyVal, axis)
    ELSE j

\* the outer loop of sortPointsByAxis, from element i on (1-based)
RECURSIVE sortFrom(_, _, _)
sortFrom(s, i, axis) ==
    IF i > Len(s) THEN s
    ELSE LET key == s[i]
             j == sortShift(s, i - 1, AxisVal(key, axis), axis)
             t == SubSeq(s, 1, j) \o <<key>> \o SubSeq(s, j + 1, i - 1)
                    \o SubSeq(s, i + 1, Len(s))
         IN sortFrom(t, i + 1, axis)

sortPointsByAxis(s, axis) == sortFrom(s, 2, axis)

RECURSIVE buildKDTree(_, _)
buildKDTree(pts, depth) ==
    IF Len(pts) = 0 THEN NilNode
    ELSE IF Len(pts) = 1 THEN kdNode(pts[1], NilNode, NilNode, depth % 2)
    ELSE LET axis == depth % 2
             sorted == sortPointsByAxis(pts, axis)
             median == Len(sorted) \div 2
         IN kdNode(sorted[median + 1],
                   buildKDTree(SubSeq(sorted, 1, median), depth + 1),
                   buildKDTree(SubSeq(sorted, median + 2, Len(sorted)), depth + 1),
                   axis)

\* NewKDTree: the tree is its root; an empty slice gives a nil root
NewKDTree(pts) == IF Len(pts) = 0 THEN NilNode ELSE buildKDTree(pts, 0)

\* the slice buildKDTree was called on, after the call: every sub-slice
\* sorted in place on the axis of its depth
RECURSIVE sortedInPlace(_, _)
sortedInPlace(pts, depth) ==
    IF Len(pts) <= 1 THEN pts
    ELSE LET sorted == sortPointsByAxis(pts, depth % 2)
             median == Len(sorted) \div 2
         IN sortedInPlace(SubSeq(sorted, 1, median), depth + 1)
                \o <<sorted[median + 1]>>
                \o sortedInPlace(SubSeq(sorted, median + 2, Len(sorted)), depth + 1)

\* the caller's slice after NewKDTree(points), had buildKDTree been called
\* on it directly
callerSlice_noCopy(pts) == sortedInPlace(pts, 0)

\* the caller's slice after NewKDTree(points): buildKDTree sorts pointsCopy
callerSlice(pts) == pts

distanceSquared(x1, y1, x2, y2) == (x1 - x2) * (x1 - x2) + (y1 - y2) * (y1 - y2)

\* findNearestHelper with the far-side test reversed
RECURSIVE findNearestHelper_farFlipped(_, _, _, _)
findNearestHelper_farFlipped(node, x, y, best) ==
    IF node = NilNode THEN best
    ELSE LET p == NodePoint(node)
             dist == distanceSquared(x, y, p.X, p.Y)
             b1 == IF dist < best.dist THEN [node |-> node, dist |-> dist] ELSE best
             diff == IF NodeAxis(node) = 0 THEN x - p.X ELSE y - p.Y
             nearChild == IF diff < 0 THEN NodeLeft(node) ELSE NodeRight(node)
             farChild == IF diff < 0 THEN NodeRight(node) ELSE NodeLeft(node)
             b2 == findNearestHelper_farFlipped(nearChild, x, y, b1)
         IN IF diff * diff > b2.dist
            THEN findNearestHelper_farFlipped(farChild, x, y, b2)
            ELSE b2

\* best is the pair (*bestNode, *bestDist) the helper updates in place
RECURSIVE findNearestHelper(_, _, _, _)
findNearestHelper(node, x, y, best) ==
    IF node = NilNode THEN best
    ELSE LET p == NodePoint(node)
             dist == distanceSquared(x, y, p.X, p.Y)
             b1 == IF dist < best.dist THEN [node |-> node, dist |-> dist] ELSE best
             diff == IF NodeAxis(node) = 0 THEN x - p.X ELSE y - p.Y
             nearChild == IF diff < 0 THEN NodeLeft(node) ELSE NodeRight(node)
             farChild == IF diff < 0 THEN NodeRight(node) ELSE NodeLeft(node)
             b2 == findNearestHelper(nearChild, x, y, b1)
         IN IF diff * diff < b2.dist
            THEN findNearestHelper(farChild, x, y, b2)
            ELSE b2

\* FindNearest answering -1 for a tree without root
FindNearest_minusOne(tree, x, y) ==
    IF tree = NilNode THEN -1
    ELSE LET rp == NodePoint(tree)
             best0 == [node |-> tree, dist |-> distanceSquared(x, y, rp.X, rp.Y)]
         IN NodePoint(findNearestHelper(tree, x, y, best0).node).Index

FindNearest(tree, x, y) ==
    IF tree = NilNode THEN 0
    ELSE LET rp == NodePoint(tree)
             best0 == [node |-> tree, dist |-> distanceSquared(x, y, rp.X, rp.Y)]
         IN NodePoint(findNearestHelper(tree, x, y, best0).node).Index

----------------------------------------------------------------------------
(* voronoi.go: the linear scan used by the border renderer *)

RECURSIVE findNearestPointFrom(_, _, _, _, _, _)
findNearestPointFrom(x, y, pts, i, minDist, best) ==
    IF i > Len(pts) THEN best
    ELSE LET dist == distanceSquared(x, y, pts[i].X, pts[i].Y)
         IN IF minDist = -1 \/ dist < minDist
            THEN findNearestPointFrom(x, y, pts, i + 1, dist, i - 1)
            ELSE findNearestPointFrom(x, y, pts, i + 1, minDist, best)

\* minDist starts at math.MaxFloat64, written -1 here
findNearestPoint(x, y, pts) == findNearestPointFrom(x, y, pts, 1, -1, 0)

----------------------------------------------------------------------------
(* voronoi.go: edge detection and adaptive sampling *)

\* the largest r with r*r <= n, for the float math.Sqrt of the source
RECURSIVE isqrtBetween(_, _, _)
isqrtBetween(n, lo, hi) ==
    IF lo >= hi THEN lo
    ELSE LET mid == (lo + hi + 1) \div 2
         IN IF mid * mid <= n THEN isqrtBetween(n, mid, hi)
                              ELSE isqrtBetween(n, lo, mid - 1)

isqrt(n) == isqrtBetween(n, 0, 2048)

\* gray := 0.299*r + 0.587*g + 0.114*b, on the 8-bit channels
Gray(c) == (299 * c.R + 587 * c.G + 114 * c.B) \div 1000

sobelX == << <<-1, 0, 1>>, <<-2, 0, 2>>, <<-1, 0, 1>> >>
sobelY == << <<-1, -2, -1>>, <<0, 0, 0>>, <<1, 2, 1>> >>

\* the gradient magnitude at an interior pixel, in 8-bit gray levels
Magnitude(im, x, y) ==
    LET D == {-1, 0, 1}
        term(k, dx, dy) == Gray(At(im, x + dx, y + dy)) * k[dy + 2][dx + 2]
        gxs == [d \in D \X D |-> term(sobelX, d[1], d[2])]
        gys == [d \in D \X D |-> term(sobelY, d[1], d[2])]
        sum9(f) == f[<<-1, -1>>] + f[<<0, -1>>] + f[<<1, -1>>]
                 + f[<<-1, 0>>] + f[<<0, 0>>] + f[<<1, 0>>]
                 + f[<<-1, 1>>] + f[<<0, 1>>] + f[<<1, 1>>]
        gx == sum9(gxs)
        gy == sum9(gys)
    IN isqrt(gx * gx + gy * gy)

\* computeEdgeMap: edgeMap[idx] = magnitude / 65535 for interior pixels, 0 on
\* the one-pixel frame.  The model keeps 255 * edgeMap[idx], an integer.
computeEdgeMap(im) ==
    [idx \in 0 .. (im.w * im.h - 1) |->
        LET x == idx % im.w
            y == idx \div im.w
        IN IF x >= 1 /\ x < im.w - 1 /\ y >= 1 /\ y < im.h - 1
           THEN Magnitude(im, x, y)
           ELSE 0]

\* weight := 1.0 + edgeMap[idx]*10.0, times 255
Weights(im) ==
    LET edgeMap == computeEdgeMap(im)
    IN [idx \in 0 .. (im.w * im.h - 1) |-> 255 + 10 * edgeMap[idx]]

\* cumulative[i] = weights[0] + ... + weights[i], as a 1-based sequence
RECURSIVE CumulativeFrom(_, _, _, _)
CumulativeFrom(weights, n, i, acc) ==
    IF i >= n THEN acc
    ELSE LET sum == (IF i = 0 THEN 0 ELSE acc[i]) + weights[i]
         IN CumulativeFrom(weights, n, i + 1, Append(acc, sum))

Cumulative(im) == CumulativeFrom(Weights(im), im.w * im.h, 0, <<>>)

\* binarySearch(arr, value) on the 0-based slice arr (arr[k] is seq[k+1])
RECURSIVE binarySearchLoop(_, _, _, _)
binarySearchLoop(arr, value, left, right) ==
    IF left < right
    THEN LET mid == (left + right) \div 2
         IN IF arr[mid + 1] < value
            THEN binarySearchLoop(arr, value, mid + 1, right)
            ELSE binarySearchLoop(arr, value, left, mid)
    ELSE left

\* the loop with arr[mid] <= value in the place of arr[mid] < value
RECURSIVE binarySearchLoop_lessOrEqual(_, _, _, _)
binarySearchLoop_lessOrEqual(arr, value, left, right) ==
    IF left < right
    THEN LET mid == (left + right) \div 2
         IN IF arr[mid + 1] <= value
            THEN binarySearchLoop_lessOrEqual(arr, value, mid + 1, right)
            ELSE binarySearchLoop_lessOrEqual(arr, value, left, mid)
    ELSE left

binarySearch_lessOrEqual(arr, value) ==
    binarySearchLoop_lessOrEqual(arr, value, 0, Len(arr) - 1)

binarySearch(arr, value) == binarySearchLoop(arr, value, 0, Len(arr) - 1)

\* target := rand.Float64() * totalWeight, a real in [0, totalWeight] (the
\* product can round up to totalWeight).  binarySearch gives the same index
\* for every target in (cumulative[i-1], cumulative[i]], so one value per
\* interval and 0 stand for all of them.
DrawTargets(cumulative) == {0} \cup { cumulative[i] : i \in 1..Len(cumulative) }

\* Point{X: idx/width, Y: idx%width, ...}: the coordinates exchanged
SeedAt_swapped(im, idx, i) ==
    LET x == idx \div im.w
        y == idx % im.w
    IN Point(x, y, im.pix[idx], i)

\* the body of the sampling loop for one drawn index
SeedAt(im, idx, i) ==
    LET x == idx % im.w
        y == idx \div im.w
    IN Point(x, y, At(im, x, y), i)

\* generateAdaptiveVoronoiPoints for the drawn targets (one per seed), given
\* the cumulative weights it built from the edge map
generateAdaptiveVoronoiPoints(im, n, cumulative, targets) ==
    [i \in 1..n |-> SeedAt(im, binarySearch(cumulative, targets[i]), i - 1)]

----------------------------------------------------------------------------
(* paintbynumbers.go: palette builder and quantizer *)

\* colorDistanceSquared: alpha is ignored
colorDistanceSquared(c1, c2) ==
    (c1.R - c2.R) * (c1.R - c2.R) + (c1.G - c2.G) * (c1.G - c2.G)
        + (c1.B - c2.B) * (c1.B - c2.B)

\* colorsEqual: all four channels
colorsEqual(c1, c2) == c1.R = c2.R /\ c1.G = c2.G /\ c1.B = c2.B /\ c1.A = c2.A

\* findNearestColor keeping the farthest entry (the comparison reversed)
RECURSIVE findNearestColor_farthestFrom(_, _, _, _, _)
findNearestColor_farthestFrom(c, pal, i, maxDist, best) ==
    IF i > Len(pal) THEN best
    ELSE LET dist == colorDistanceSquared(c, pal[i])
         IN IF dist > maxDist
            THEN findNearestColor_farthestFrom(c, pal, i + 1, dist, i - 1)
            ELSE findNearestColor_farthestFrom(c, pal, i + 1, maxDist, best)

findNearestColor_farthest(c, pal) == findNearestColor_farthestFrom(c, pal, 1, -1, 0)

\* the loop of findNearestColor; minDist = -1 stands for math.MaxFloat64
RECURSIVE findNearestColorFrom(_, _, _, _, _)
findNearestColorFrom(c, pal, i, minDist, best) ==
    IF i > Len(pal) THEN best
    ELSE LET dist == colorDistanceSquared(c, pal[i])
         IN IF minDist = -1 \/ dist < minDist
            THEN findNearestColorFrom(c, pal, i + 1, dist, i - 1)
            ELSE findNearestColorFrom(c, pal, i + 1, minDist, best)

\* the 0-based index of the first palette entry at minimal distance
findNearestColor(c, pal) == findNearestColorFrom(c, pal, 1, -1, 0)

RECURSIVE SumChannel(_, _, _)
SumChannel(cs, ch, i) ==
    IF i > Len(cs) THEN 0 ELSE cs[i][ch] + SumChannel(cs, ch, i + 1)

\* averageColor with the alpha channel left out of the result
averageColor_noAlpha(cs) ==
    LET n == Len(cs)
        avg(ch) == (((257 * SumChannel(cs, ch, 1)) \div n) \div 256) % 256
    IN RGBA(avg("R"), avg("G"), avg("B"), 0)

\* averageColor: the 16-bit channel sums divided by n, shifted right by 8
\* and truncated to uint8
averageColor(cs) ==
    LET n == Len(cs)
        avg(ch) == (((257 * SumChannel(cs, ch, 1)) \div n) \div 256) % 256
    IN RGBA(avg("R"), avg("G"), avg("B"), avg("A"))

\* quantizePoints with the field Index left out of the composite literal
quantizePoints_noIndex(pts, pal) ==
    [i \in 1..Len(pts) |->
        LET p == pts[i]
            nearestIdx == findNearestColor(p.Color, pal)
        IN Point(p.X, p.Y, pal[nearestIdx + 1], 0)]

\* quantizePoints: a new slice, each colour replaced by its palette entry
quantizePoints(pts, pal) ==
    [i \in 1..Len(pts) |->
        LET p == pts[i]
            nearestIdx == findNearestColor(p.Color, pal)
        IN Point(p.X, p.Y, pal[nearestIdx + 1], p.Index)]

\* generatePalette: the colours at every 10th pixel of every 10th row,
\* row-major
RECURSIVE SampleColorsFrom(_, _, _)
SampleColorsFrom(im, x, y) ==
    IF y >= im.h THEN <<>>
    ELSE IF x >= im.w THEN SampleColorsFrom(im, 0, y + 10)
    ELSE <<At(im, x, y)>> \o SampleColorsFrom(im, x + 10, y)

\* generatePalette with sampleStep 5 instead of 10
RECURSIVE SampleColors_step5From(_, _, _)
SampleColors_step5From(im, x, y) ==
    IF y >= im.h THEN <<>>
    ELSE IF x >= im.w THEN SampleColors_step5From(im, 0, y + 5)
    ELSE <<At(im, x, y)>> \o SampleColors_step5From(im, x + 5, y)

SampleColors_step5(im) == SampleColors_step5From(im, 0, 0)

\* generatePalette with both loops starting at sampleStep instead of 0
SampleColors_fromStep(im) == SampleColorsFrom(im, 10, 10)

SampleColors(im) == SampleColorsFrom(im, 0, 0)

\* k-means++: distances[i], the squared distance of colors[i] to the nearest
\* centroid chosen so far
RECURSIVE MinDistFrom(_, _, _, _)
MinDistFrom(c, cents, j, minDist) ==
    IF j > Len(cents) THEN minDist
    ELSE LET dist == colorDistanceSquared(c, cents[j])
         IN MinDistFrom(c, cents, j + 1,
                        IF minDist = -1 \/ dist < minDist THEN dist ELSE minDist)

SeedDistances(cs, cents) == [i \in 1..Len(cs) |-> MinDistFrom(cs[i], cents, 1, -1)]

RECURSIVE RunningSums(_, _, _)
RunningSums(ds, i, acc) ==
    IF i > Len(ds) THEN <<>>
    ELSE <<acc + ds[i]>> \o RunningSums(ds, i + 1, acc + ds[i])

\* the selection loop with cumulative > target
RECURSIVE SeedPickFrom_above(_, _, _)
SeedPickFrom_above(cum, target, i) ==
    IF i > Len(cum) THEN 0
    ELSE IF cum[i] > target THEN i
    ELSE SeedPickFrom_above(cum, target, i + 1)

\* the selection loop: the first i with cumulative >= target, 0 if none
RECURSIVE SeedPickFrom(_, _, _)
SeedPickFrom(cum, target, i) ==
    IF i > Len(cum) THEN 0
    ELSE IF cum[i] >= target THEN i
    ELSE SeedPickFrom(cum, target, i + 1)

\* one round of the seeding loop for a drawn target: the centroids after it
SeedRound(cs, cents, target) ==
    LET pick == SeedPickFrom(RunningSums(SeedDistances(cs, cents), 1, 0), target, 1)
    IN IF pick = 0 THEN cents ELSE Append(cents, cs[pick])

\* clusters[i]: the colours whose nearest centroid is i (0-based), in order
RECURSIVE ClusterOf(_, _, _, _)
ClusterOf(cs, cents, i, j) ==
    IF j > Len(cs) THEN <<>>
    ELSE (IF findNearestColor(cs[j], cents) = i THEN <<cs[j]>> ELSE <<>>)
            \o ClusterOf(cs, cents, i, j + 1)

\* the centroid update of one k-means round
UpdateCentroids(cs, cents) ==
    [i \in 1..Len(cents) |->
        LET cluster == ClusterOf(cs, cents, i - 1, 1)
        IN IF Len(cluster) > 0
           THEN LET newCentroid == averageColor(cluster)
                IN IF ~colorsEqual(cents[i], newCentroid) THEN newCentroid ELSE cents[i]
           ELSE cents[i]]

\* for iter := 0; iter < 15; iter++
MaxIterations == 15

\* generatePalette up to the call of kMeansClustering
GeneratePalette ==
    /\ pc = "palette_start"
    /\ colors' = SampleColors(img)
    /\ pc' = "km_start"
    /\ UNCHANGED <<auxVars, entryVars, parVars, inVars, outVars, centroids, iter, palette, points, quantizedPoints, kdVars>>

\* if k >= len(colors) with > in the place of >=
returnsColors_above(k, n) == k > n

\* if k >= len(colors) { return colors }
returnsColors(k, n) == k >= n

\* kMeansClustering: the two early returns and the first, uniformly drawn
\* centroid
KMStart ==
    /\ pc = "km_start"
    /\ IF Len(colors) = 0
       THEN /\ palette' = <<Gray128>>
            /\ pc' = "palette_done"
            /\ UNCHANGED centroids
       ELSE IF returnsColors(numColors, Len(colors))
       THEN /\ palette' = colors
            /\ pc' = "palette_done"
            /\ UNCHANGED centroids
       ELSE /\ \E r \in 0 .. (Len(colors) - 1) : centroids' = <<colors[r + 1]>>
            /\ pc' = "km_loop"
            /\ UNCHANGED palette
    /\ UNCHANGED <<auxVars, entryVars, parVars, inVars, outVars, colors, iter, points, quantizedPoints, kdVars>>

\* one round of `for len(centroids) < k`
KMSeed ==
    /\ pc = "km_loop"
    /\ Len(centroids) < numColors
    /\ \E target \in DrawTargets(RunningSums(SeedDistances(colors, centroids), 1, 0)) :
         centroids' = SeedRound(colors, centroids, target)
    /\ UNCHANGED <<auxVars, pc, entryVars, parVars, inVars, outVars, colors, iter, palette, points, quantizedPoints, kdVars>>

\* one round of the refinement loop, with its early exit and its return
KMIterate ==
    /\ pc = "km_loop"
    /\ Len(centroids) >= numColors
    /\ iter < MaxIterations
    /\ LET new == UpdateCentroids(colors, centroids)
           changed == new # centroids
       IN /\ centroids' = new
          /\ iter' = iter + 1
          /\ IF ~changed \/ iter + 1 >= MaxIterations
             THEN pc' = "palette_done" /\ palette' = new
             ELSE pc' = "km_loop" /\ UNCHANGED palette
    /\ UNCHANGED <<auxVars, entryVars, parVars, inVars, outVars, colors, points, quantizedPoints, kdVars>>

----------------------------------------------------------------------------
(* voronoi.go, wasm_helpers.go: rasterization and borders *)

PixelIndices(w, h) == 0 .. (w * h - 1)

\* the rasterization loops: every pixel gets the colour of
\* points[kdtree.FindNearest(x, y)]
Raster(pts, tree, w, h) ==
    [idx \in PixelIndices(w, h) |->
        pts[FindNearest(tree, idx % w, idx \div w) + 1].Color]

\* createBlankVoronoiDiagram: every pixel white
BlankRaster(w, h) == [idx \in PixelIndices(w, h) |-> White]

\* the region id the border pass gives every pixel: findNearestPoint(x, y)
NearestMap(pts, w, h) ==
    [idx \in PixelIndices(w, h) |-> findNearestPoint(idx % w, idx \div w, pts)]

\* isBorderPixelWithWidth / isGridBorder on a map of region ids: some
\* in-bounds neighbour within the disc of radius (width+1)/2 has another id
isBorderPixelWithWidth(x, y, w, h, ids, width) ==
    LET current == ids[y * w + x]
        radius == (width + 1) \div 2
    IN \E dy \in (-radius) .. radius, dx \in (-radius) .. radius :
          /\ ~(dx = 0 /\ dy = 0)
          /\ ~(dx * dx + dy * dy > radius * radius)
          /\ LET nx == x + dx
                 ny == y + dy
             IN /\ ~(nx < 0 \/ nx >= w \/ ny < 0 \/ ny >= h)
                /\ ids[ny * w + nx] # current

\* addVoronoiBordersWithWidth with radius := width/2 + 1 and no early return
addVoronoiBordersWithWidth_radiusUp(pix, pts, w, h, width) ==
    LET ids == NearestMap(pts, w, h)
    IN [idx \in PixelIndices(w, h) |->
           IF isBorderPixelWithWidth(idx % w, idx \div w, w, h, ids, width + 1)
           THEN Black ELSE pix[idx]]

\* addVoronoiBordersWithWidth: width 0 returns the image itself, otherwise a
\* copy with the border pixels black
addVoronoiBordersWithWidth(pix, pts, w, h, width) ==
    IF width = 0 THEN pix
    ELSE LET ids == NearestMap(pts, w, h)
         IN [idx \in PixelIndices(w, h) |->
                IF isBorderPixelWithWidth(idx % w, idx \div w, w, h, ids, width)
                THEN Black ELSE pix[idx]]

----------------------------------------------------------------------------
(* textdraw.go: region labeling *)

\* digitBitmaps['0'..'9'], rows top to bottom, 1 for true
digitBitmaps == <<
    << <<0, 1, 1, 1, 0>>, <<1, 0, 0, 0, 1>>, <<1, 0, 0, 1, 1>>, <<1, 0, 1, 0, 1>>,
       <<1, 1, 0, 0, 1>>, <<1, 0, 0, 0, 1>>, <<0, 1, 1, 1, 0>> >>,
    << <<0, 0, 1, 0, 0>>, <<0, 1, 1, 0, 0>>, <<0, 0, 1, 0, 0>>, <<0, 0, 1, 0, 0>>,
       <<0, 0, 1, 0, 0>>, <<0, 0, 1, 0, 0>>, <<0, 1, 1, 1, 0>> >>,
    << <<0, 1, 1, 1, 0>>, <<1, 0, 0, 0, 1>>, <<0, 0, 0, 0, 1>>, <<0, 0, 0, 1, 0>>,
       <<0, 0, 1, 0, 0>>, <<0, 1, 0, 0, 0>>, <<1, 1, 1, 1, 1>> >>,
    << <<0, 1, 1, 1, 0>>, <<1, 0, 0, 0, 1>>, <<0, 0, 0, 0, 1>>, <<0, 0, 1, 1, 0>>,
       <<0, 0, 0, 0, 1>>, <<1, 0, 0, 0, 1>>, <<0, 1, 1, 1, 0>> >>,
    << <<0, 0, 0, 1, 0>>, <<0, 0, 1, 1, 0>>, <<0, 1, 0, 1, 0>>, <<1, 0, 0, 1, 0>>,
       <<1, 1, 1, 1, 1>>, <<0, 0, 0, 1, 0>>, <<0, 0, 0, 1, 0>> >>,
    << <<1, 1, 1, 1, 1>>, <<1, 0, 0, 0, 0>>, <<1, 1, 1, 1, 0>>, <<0, 0, 0, 0, 1>>,
       <<0, 0, 0, 0, 1>>, <<1, 0, 0, 0, 1>>, <<0, 1, 1, 1, 0>> >>,
    << <<0, 0, 1, 1, 0>>, <<0, 1, 0, 0, 0>>, <<1, 0, 0, 0, 0>>, <<1, 1, 1, 1, 0>>,
       <<1, 0, 0, 0, 1>>, <<1, 0, 0, 0, 1>>, <<0, 1, 1, 1, 0>> >>,
    << <<1, 1, 1, 1, 1>>, <<0, 0, 0, 0, 1>>, <<0, 0, 0, 1, 0>>, <<0, 0, 1, 0, 0>>,
       <<0, 1, 0, 0, 0>>, <<0, 1, 0, 0, 0>>, <<0, 1, 0, 0, 0>> >>,
    << <<0, 1, 1, 1, 0>>, <<1, 0, 0, 0, 1>>, <<1, 0, 0, 0, 1>>, <<0, 1, 1, 1, 0>>,
       <<1, 0, 0, 0, 1>>, <<1, 0, 0, 0, 1>>, <<0, 1, 1, 1, 0>> >>,
    << <<0, 1, 1, 1, 0>>, <<1, 0, 0, 0, 1>>, <<1, 0, 0, 0, 1>>, <<0, 1, 1, 1, 1>>,
       <<0, 0, 0, 0, 1>>, <<0, 0, 0, 1, 0>>, <<0, 1, 1, 0, 0>> >> >>

\* skipFactor := int(1.0 / scale) for the scale 0.6 drawDigit passes
skipFactor == 10 \div 6

\* the pixels drawBitmapScaled sets for one digit drawn by drawDigit
\* (startX = centerX - 1, startY = centerY - 2), clipped to the image
DigitPixels(digit, centerX, centerY, w, h) ==
    IF digit < 0 \/ digit > 9 THEN {}
    ELSE LET bitmap == digitBitmaps[digit + 1]
             startX == centerX - 1
             startY == centerY - 2
         IN { <<startX + (x \div skipFactor), startY + (y \div skipFactor)>> :
                <<x, y>> \in { c \in (0..4) \X (0..6) :
                    /\ c[1] % skipFactor = 0
                    /\ c[2] % skipFactor = 0
                    /\ bitmap[c[2] + 1][c[1] + 1] = 1
                    /\ startX + (c[1] \div skipFactor) >= 0
                    /\ startX + (c[1] \div skipFactor) < w
                    /\ startY + (c[2] \div skipFactor) >= 0
                    /\ startY + (c[2] \div skipFactor) < h } }

\* drawNumber: the pixels set for num at (x, y)
NumberPixels(num, x, y, w, h) ==
    IF num >= 10
    THEN DigitPixels(num \div 10, x - 2, y, w, h) \cup DigitPixels(num % 10, x + 2, y, w, h)
    ELSE DigitPixels(num, x, y, w, h)

\* the pixels set by a sequence of drawNumber calls
StampPixels(sts, w, h) ==
    UNION { NumberPixels(sts[i].num, sts[i].X, sts[i].Y, w, h) : i \in 1..Len(sts) }

\* the image after the drawNumber calls: text colour is black
drawNumbers(pix, sts, w, h) ==
    LET set == StampPixels(sts, w, h)
    IN [idx \in PixelIndices(w, h) |->
           IF <<idx % w, idx \div w>> \in set THEN Black ELSE pix[idx]]

\* the iteration without the neighbour to the left among those queued
floodFillStep_noLeft(st, colorIdx, ids, w, h) ==
    IF Len(st.queue) = 0 THEN st
    ELSE LET p == Head(st.queue)
             rest == Tail(st.queue)
         IN IF p[1] < 0 \/ p[1] >= w \/ p[2] < 0 \/ p[2] >= h
            THEN [st EXCEPT !.queue = rest]
            ELSE LET idx == p[2] * w + p[1]
                 IN IF st.visited[idx] THEN [st EXCEPT !.queue = rest]
                    ELSE IF ids[idx] # colorIdx THEN [st EXCEPT !.queue = rest]
                    ELSE [queue |-> rest \o << <<p[1] + 1, p[2]>>,
                                               <<p[1], p[2] - 1>>, <<p[1], p[2] + 1>> >>,
                          Pixels |-> Append(st.Pixels, p),
                          visited |-> [st.visited EXCEPT ![idx] = TRUE]]

\* one iteration of the queue loop of floodFill; ids[idx] is
\* kdtree.FindNearest at the pixel
floodFillStep(st, colorIdx, ids, w, h) ==
    IF Len(st.queue) = 0 THEN st
    ELSE LET p == Head(st.queue)
             rest == Tail(st.queue)
         IN IF p[1] < 0 \/ p[1] >= w \/ p[2] < 0 \/ p[2] >= h
            THEN [st EXCEPT !.queue = rest]
            ELSE LET idx == p[2] * w + p[1]
                 IN IF st.visited[idx] THEN [st EXCEPT !.queue = rest]
                    ELSE IF ids[idx] # colorIdx THEN [st EXCEPT !.queue = rest]
                    ELSE [queue |-> rest \o << <<p[1] - 1, p[2]>>, <<p[1] + 1, p[2]>>,
                                               <<p[1], p[2] - 1>>, <<p[1], p[2] + 1>> >>,
                          Pixels |-> Append(st.Pixels, p),
                          visited |-> [st.visited EXCEPT ![idx] = TRUE]]

\* n iterations of the queue loop, or fewer when the queue runs empty
RECURSIVE floodFillRun(_, _, _, _, _, _)
floodFillRun(st, n, colorIdx, ids, w, h) ==
    IF n = 0 \/ Len(st.queue) = 0 THEN st
    ELSE IF n = 1 THEN floodFillStep(st, colorIdx, ids, w, h)
    ELSE floodFillRun(floodFillRun(st, n \div 2, colorIdx, ids, w, h),
                      n - (n \div 2), colorIdx, ids, w, h)

\* floodFill: the loop runs until the queue is empty; every iteration pops one
\* position and only a newly visited pixel pushes four, so 4*w*h + 1
\* iterations empty it
floodFill(startX, startY, colorIdx, visited, ids, w, h) ==
    floodFillRun([queue |-> << <<startX, startY>> >>, Pixels |-> <<>>,
                  visited |-> visited],
                 4 * w * h + 1, colorIdx, ids, w, h)

\* the sum of coordinate k over pixels[lo..hi]
RECURSIVE SumCoord(_, _, _, _)
SumCoord(pixels, k, lo, hi) ==
    IF lo > hi THEN 0
    ELSE IF lo = hi THEN pixels[lo][k]
    ELSE SumCoord(pixels, k, lo, (lo + hi) \div 2)
         + SumCoord(pixels, k, ((lo + hi) \div 2) + 1, hi)

\* regions below this many pixels get no number
MinRegionPixels == 100

\* a region with fewer than 100 pixels still counts as reasonable
RegionKept_offByOne(pixels) == Len(pixels) >= MinRegionPixels - 1

\* if len(region.Pixels) >= 100
RegionKept(pixels) == Len(pixels) >= MinRegionPixels

\* the centroid of a pixel list: sumX / len, sumY / len
Centroid(pixels) ==
    <<SumCoord(pixels, 1, 1, Len(pixels)) \div Len(pixels),
      SumCoord(pixels, 2, 1, Len(pixels)) \div Len(pixels)>>

\* the body of the scan loop of findRegions for one flood fill: the region
\* is kept when it is large enough
findRegionsAdd(acc, colorIdx, fill) ==
    [visited |-> fill.visited,
     regions |-> IF RegionKept(fill.Pixels)
                 THEN Append(acc.regions,
                             [ColorIndex |-> colorIdx, Pixels |-> fill.Pixels,
                              Centroid |-> Centroid(fill.Pixels),
                              Area |-> Len(fill.Pixels)])
                 ELSE acc.regions,
     fills |-> Append(acc.fills, [ColorIndex |-> colorIdx, Pixels |-> fill.Pixels])]

\* the scan loop of findRegions from pixel index `from` on, one step per
\* unvisited pixel met; acc carries visited, the regions kept and every fill
RECURSIVE findRegionsFrom(_, _, _, _, _)
findRegionsFrom(from, acc, ids, w, h) ==
    IF \A k \in from .. (w * h - 1) : acc.visited[k] THEN acc
    ELSE LET idx == CHOOSE k \in from .. (w * h - 1) :
                       ~acc.visited[k] /\ \A j \in from .. (k - 1) : acc.visited[j]
         IN findRegionsFrom(idx + 1,
               findRegionsAdd(acc, ids[idx],
                   floodFill(idx % w, idx \div w, ids[idx], acc.visited, ids, w, h)),
               ids, w, h)

\* findRegions: the region id of a pixel is kdtree.FindNearest(x, y)
findRegions(tree, w, h) ==
    LET ids == [idx \in PixelIndices(w, h) |-> FindNearest(tree, idx % w, idx \div w)]
    IN findRegionsFrom(0,
          [visited |-> [idx \in PixelIndices(w, h) |-> FALSE],
           regions |-> <<>>, fills |-> <<>>],
          ids, w, h)

\* addRegionNumbers: one drawNumber(ColorIndex + 1, Centroid) per region
RegionStamps(regs) ==
    [i \in 1..Len(regs) |->
        [num |-> regs[i].ColorIndex + 1, X |-> regs[i].Centroid[1], Y |-> regs[i].Centroid[2]]]

----------------------------------------------------------------------------
(* wasm_helpers.go: grid mode *)

\* step 2 of convertToGridPaintByNumbers: the palette index of every pixel
GridColorIndices(im, pal) ==
    [idx \in PixelIndices(im.w, im.h) |-> findNearestColor(im.pix[idx], pal)]

\* the quantized image: palette colours, or white when showColors is off
GridQuantized(im, pal, ids, show) ==
    [idx \in PixelIndices(im.w, im.h) |-> IF show THEN pal[ids[idx] + 1] ELSE White]

\* step 3: the copy with black borders, drawn only when lineWidth > 0
GridBordered(pix, ids, w, h, width) ==
    IF width > 0
    THEN [idx \in PixelIndices(w, h) |->
             IF isBorderPixelWithWidth(idx % w, idx \div w, w, h, ids, width)
             THEN Black ELSE pix[idx]]
    ELSE pix

\* one iteration of the queue loop of gridFloodFill
gridFloodFillStep(st, targetColor, ids, w, h) ==
    IF Len(st.queue) = 0 THEN st
    ELSE LET p == Head(st.queue)
             rest == Tail(st.queue)
         IN IF p[1] < 0 \/ p[1] >= w \/ p[2] < 0 \/ p[2] >= h
            THEN [st EXCEPT !.queue = rest]
            ELSE LET idx == p[2] * w + p[1]
                 IN IF idx >= w * h \/ st.visited[idx] \/ ids[idx] # targetColor
                    THEN [st EXCEPT !.queue = rest]
                    ELSE [queue |-> rest \o << <<p[1] - 1, p[2]>>, <<p[1] + 1, p[2]>>,
                                               <<p[1], p[2] - 1>>, <<p[1], p[2] + 1>> >>,
                          Pixels |-> Append(st.Pixels, p),
                          visited |-> [st.visited EXCEPT ![idx] = TRUE]]

RECURSIVE gridFloodFillRun(_, _, _, _, _, _)
gridFloodFillRun(st, n, targetColor, ids, w, h) ==
    IF n = 0 \/ Len(st.queue) = 0 THEN st
    ELSE IF n = 1 THEN gridFloodFillStep(st, targetColor, ids, w, h)
    ELSE gridFloodFillRun(gridFloodFillRun(st, n \div 2, targetColor, ids, w, h),
                          n - (n \div 2), targetColor, ids, w, h)

\* gridFloodFill: nil for a start index past colorIndices, else the loop with
\* the palette index at the start pixel as target
gridFloodFill(startX, startY, ids, visited, w, h) ==
    IF startY * w + startX >= w * h
    THEN [queue |-> <<>>, Pixels |-> <<>>, visited |-> visited]
    ELSE gridFloodFillRun([queue |-> << <<startX, startY>> >>, Pixels |-> <<>>,
                           visited |-> visited],
                          4 * w * h + 1, ids[startY * w + startX], ids, w, h)

\* the body of the scan loop of addGridRegionNumbers for one flood fill:
\* drawNumber(colorIndices[idx] + 1) at the centroid when the region is large
\* enough
addGridRegionNumbersAdd(acc, colorIdx, fill) ==
    [visited |-> fill.visited,
     stamps |-> IF RegionKept(fill.Pixels)
                THEN Append(acc.stamps,
                            [num |-> colorIdx + 1,
                             X |-> Centroid(fill.Pixels)[1],
                             Y |-> Centroid(fill.Pixels)[2]])
                ELSE acc.stamps,
     fills |-> Append(acc.fills, [ColorIndex |-> colorIdx, Pixels |-> fill.Pixels])]

\* the scan loop of addGridRegionNumbers from pixel index `from` on, one step
\* per unvisited pixel met
RECURSIVE addGridRegionNumbersFrom(_, _, _, _, _)
addGridRegionNumbersFrom(from, acc, ids, w, h) ==
    IF \A k \in from .. (w * h - 1) : acc.visited[k] THEN acc
    ELSE LET idx == CHOOSE k \in from .. (w * h - 1) :
                       ~acc.visited[k] /\ \A j \in from .. (k - 1) : acc.visited[j]
         IN addGridRegionNumbersFrom(idx + 1,
               addGridRegionNumbersAdd(acc, ids[idx],
                   gridFloodFill(idx % w, idx \div w, ids, acc.visited, w, h)),
               ids, w, h)

addGridRegionNumbers(ids, w, h) ==
    addGridRegionNumbersFrom(0,
        [visited |-> [idx \in PixelIndices(w, h) |-> FALSE],
         stamps |-> <<>>, fills |-> <<>>],
        ids, w, h)

----------------------------------------------------------------------------
(* wasm_helpers.go: the stages of convertToPaintByNumbersWithParamsAndColors *)
(* and convertToGridPaintByNumbers after the palette and the seeds          *)

\* "if lineWidth <= 2": the test both pipelines make before the labeling step
numbersFit_upTo3(width) == width <= 3
numbersFit(width) == width <= 2

\* step 4: createVoronoiDiagramWithProgress or createBlankVoronoiDiagram
Rasterize ==
    /\ pc = "quantized"
    /\ kdtree' = NewKDTree(quantizedPoints)
    /\ voronoi' = IF showColors
                  THEN Raster(quantizedPoints, kdtree', img.w, img.h)
                  ELSE BlankRaster(img.w, img.h)
    /\ pc' = "rasterized"
    /\ UNCHANGED <<auxVars, entryVars, parVars, inVars, palVars, points, quantizedPoints, query, nearest,
                   colorIndices, bordered, result, regions, stamps, fills>>

\* step 5: addVoronoiBordersWithWidth
AddBorders ==
    /\ pc = "rasterized"
    /\ bordered' = addVoronoiBordersWithWidth(voronoi, quantizedPoints,
                                              img.w, img.h, lineWidth)
    /\ pc' = "bordered"
    /\ UNCHANGED <<auxVars, entryVars, parVars, inVars, palVars, points, quantizedPoints, kdVars,
                   voronoi, colorIndices, result, regions, stamps, fills>>

\* step 6: addRegionNumbers when lineWidth <= 2, and the return
AddNumbers ==
    /\ pc = "bordered"
    /\ useVoronoi
    /\ IF numbersFit(lineWidth)
       THEN \E found \in {findRegions(kdtree, img.w, img.h)} :
               /\ regions' = found.regions
               /\ fills' = found.fills
               /\ stamps' = RegionStamps(found.regions)
               /\ result' = drawNumbers(bordered, stamps', img.w, img.h)
       ELSE /\ result' = bordered
            /\ UNCHANGED <<regions, stamps, fills>>
    /\ pc' = "done"
    /\ UNCHANGED <<auxVars, entryVars, parVars, inVars, palVars, points, quantizedPoints, kdVars,
                   voronoi, colorIndices, bordered>>

\* convertToGridPaintByNumbers steps 2 and 3: per-pixel quantization, borders
GridConvert ==
    /\ pc = "palette_done"
    /\ ~useVoronoi
    /\ colorIndices' = GridColorIndices(img, palette)
    /\ voronoi' = GridQuantized(img, palette, colorIndices', showColors)
    /\ bordered' = GridBordered(voronoi', colorIndices', img.w, img.h, lineWidth)
    /\ pc' = "bordered"
    /\ UNCHANGED <<auxVars, entryVars, parVars, inVars, palVars, points, quantizedPoints, kdVars,
                   result, regions, stamps, fills>>

\* convertToGridPaintByNumbers step 4: addGridRegionNumbers when
\* lineWidth <= 2, and the return
AddGridNumbers ==
    /\ pc = "bordered"
    /\ ~useVoronoi
    /\ IF numbersFit(lineWidth)
       THEN \E done \in {addGridRegionNumbers(colorIndices, img.w, img.h)} :
               /\ stamps' = done.stamps
               /\ fills' = done.fills
               /\ result' = drawNumbers(bordered, stamps', img.w, img.h)
       ELSE /\ result' = bordered
            /\ UNCHANGED <<stamps, fills>>
    /\ pc' = "done"
    /\ UNCHANGED <<auxVars, entryVars, parVars, inVars, palVars, points, quantizedPoints, kdVars,
                   voronoi, colorIndices, bordered, regions>>

----------------------------------------------------------------------------
(* The k-d tree specification: seeds on a GridSize x (GridSize-1) image, *)
(* Index equal to the slice position as the sampler assigns it.      *)

GridX == 0 .. (GridSize - 1)
GridY == 0 .. (GridSize - 2)

SeedLists ==
    UNION { { [i \in 1..n |-> Point(xs[i], ys[i], NoColor, i - 1)] :
                xs \in [1..n -> GridX], ys \in [1..n -> GridY] } : n \in 0..MaxSeeds }

KDInit ==
    /\ pc = "kd_start"
    /\ img = NoImage
    /\ numPoints = 0
    /\ numColors = 0
    /\ points \in SeedLists
    /\ quantizedPoints = <<>>
    /\ palIdle
    /\ kdIdle
    /\ optIdle
    /\ outIdle
    /\ entryIdle
    /\ parIdle
    /\ auxIdle

KDBuild ==
    /\ pc = "kd_start"
    /\ kdtree' = NewKDTree(points)
    /\ points' = callerSlice(points)
    /\ pc' = "kd_built"
    /\ UNCHANGED <<auxVars, quantizedPoints, query, nearest, entryVars, parVars, inVars, outVars, palVars>>

KDQuery ==
    /\ pc = "kd_built"
    /\ \E x \in GridX, y \in GridY :
         /\ query' = <<x, y>>
         /\ nearest' = FindNearest(kdtree, x, y)
    /\ pc' = "kd_answered"
    /\ UNCHANGED <<auxVars, points, quantizedPoints, kdtree, entryVars, parVars, inVars, outVars, palVars>>

KDNext == KDBuild \/ KDQuery

SpecKD == KDInit /\ [][KDNext]_vars

\* the minimum squared distance a brute-force scan over all seeds finds
BruteMin(pts, x, y) ==
    LET ds == { distanceSquared(x, y, pts[i].X, pts[i].Y) : i \in 1..Len(pts) }
    IN CHOOSE d \in ds : \A e \in ds : d <= e

\* C2: FindNearest returns the Index of a seed at exactly the brute-force
\* minimum squared distance from the query point (pruning never skips a
\* strictly closer seed), duplicates allowed.
C2_NearestIsMinimal ==
    (pc = "kd_answered" /\ Len(points) > 0) =>
        /\ nearest \in 0 .. (Len(points) - 1)
        /\ distanceSquared(query[1], query[2],
                           points[nearest + 1].X, points[nearest + 1].Y)
             = BruteMin(points, query[1], query[2])

\* C12: NewKDTree on an empty seed list returns an index without root, and
\* FindNearest on it returns 0 for every query point.
C12_EmptyIndexAnswersZero ==
    Len(points) = 0 =>
        /\ pc \in {"kd_built", "kd_answered"} => kdtree = NilNode
        /\ pc = "kd_answered" => nearest = 0

\* the empty index was queried away from the origin and answered 0
C12_Witness ==
    /\ pc = "kd_answered"
    /\ Len(points) = 0
    /\ kdtree = NilNode
    /\ query = <<GridSize - 1, GridSize - 2>>
    /\ nearest = 0

\* the Index values held in a subtree
RECURSIVE TreeIndices(_)
TreeIndices(node) ==
    IF node = NilNode THEN {}
    ELSE {NodePoint(node).Index} \cup TreeIndices(NodeLeft(node))
                                 \cup TreeIndices(NodeRight(node))

\* a query answered from the far subtree of the root: the query lies left of
\* the root's plane, the winner sits in the right subtree and is strictly
\* closer than the root; two of the seeds share their coordinates
C2_Witness ==
    /\ pc = "kd_answered"
    /\ Len(points) = 3
    /\ \E i, j \in 1..3 : i # j /\ points[i].X = points[j].X /\ points[i].Y = points[j].Y
    /\ LET root == NodePoint(kdtree)
       IN /\ query[1] < root.X
          /\ nearest \in TreeIndices(NodeRight(kdtree))
          /\ BruteMin(points, query[1], query[2])
               < distanceSquared(query[1], query[2], root.X, root.Y)

\* the seeds of a subtree, in order: left subtree, node, right subtree
RECURSIVE TreePoints(_)
TreePoints(node) ==
    IF node = NilNode THEN <<>>
    ELSE TreePoints(NodeLeft(node)) \o <<NodePoint(node)>> \o TreePoints(NodeRight(node))

\* the k-d invariant at a node of the given depth and at every node below it
RECURSIVE KdInvariant(_, _)
KdInvariant(node, depth) ==
    \/ node = NilNode
    \/ /\ NodeAxis(node) = depth % 2
       /\ \A i \in 1 .. Len(TreePoints(NodeLeft(node))) :
             AxisVal(TreePoints(NodeLeft(node))[i], depth % 2)
                 <= AxisVal(NodePoint(node), depth % 2)
       /\ \A i \in 1 .. Len(TreePoints(NodeRight(node))) :
             AxisVal(TreePoints(NodeRight(node))[i], depth % 2)
                 >= AxisVal(NodePoint(node), depth % 2)
       /\ KdInvariant(NodeLeft(node), depth + 1)
       /\ KdInvariant(NodeRight(node), depth + 1)

(* Seed lists long enough for nodes below the root to have children *)
MaxDeepSeeds == 5

\* the places of the seeds: two columns, three rows
DeepPlaces == {<<x, y>> : x \in {0, 1}, y \in {0, 1, 2}}

\* the seed slice as the caller built it
Numbered(pts) == \A i \in 1 .. Len(pts) : pts[i].Index = i - 1

KDDeepInit ==
    /\ pc = "kd_start"
    /\ img = NoImage
    /\ numPoints = 0
    /\ numColors = 0
    /\ \E n \in 0 .. MaxDeepSeeds :
          \E at \in [1..n -> DeepPlaces] :
             points = [i \in 1..n |-> Point(at[i][1], at[i][2], NoColor, i - 1)]
    /\ quantizedPoints = <<>>
    /\ palIdle
    /\ kdIdle
    /\ optIdle
    /\ outIdle
    /\ entryIdle
    /\ parIdle
    /\ auxIdle

KDDeepNext == KDBuild

SpecKDDeep == KDDeepInit /\ [][KDDeepNext]_vars

\* C18: in every tree NewKDTree builds, every node splits on x at even depth
\* and on y at odd depth, no seed of its left subtree is beyond its
\* coordinate on that axis and no seed of its right subtree is before it.
C18_KdInvariant ==
    pc = "kd_built" => KdInvariant(kdtree, 0)

\* five seeds: the root splits on x with two seeds on each side, and a node
\* at depth 1 splits on y with a seed strictly below it
C18_Witness ==
    /\ pc = "kd_built"
    /\ Len(points) = 5
    /\ Len(TreePoints(NodeLeft(kdtree))) = 2 /\ Len(TreePoints(NodeRight(kdtree))) = 2
    /\ NodeAxis(NodeLeft(kdtree)) = 1
    /\ NodeLeft(NodeLeft(kdtree)) # NilNode
    /\ NodePoint(NodeLeft(NodeLeft(kdtree))).Y < NodePoint(NodeLeft(kdtree)).Y
    /\ \E i \in 1..2 : TreePoints(NodeRight(kdtree))[i].X > NodePoint(kdtree).X

\* every seed of the slice pts is the seed of exactly one node of the tree
HoldsEachOnce(tree, pts) ==
    /\ Len(TreePoints(tree)) = Len(pts)
    /\ \A i \in 1 .. Len(pts) :
          Cardinality({k \in 1 .. Len(TreePoints(tree)) : TreePoints(tree)[k] = pts[i]}) = 1

\* C19: the call of NewKDTree leaves the caller's slice as it was, so
\* points[i].Index is still i, and the tree it returns holds every seed of
\* the slice in exactly one node.
C19_SliceKeptSeedsOnce ==
    [][pc = "kd_start" =>
          /\ points' = points
          /\ Numbered(points')
          /\ HoldsEachOnce(kdtree', points)]_vars

\* five seeds given in an order that is sorted on neither axis
C19_Witness ==
    /\ pc = "kd_built"
    /\ Len(points) = 5
    /\ points[1].X > points[2].X /\ points[2].Y > points[3].Y
    /\ sortedInPlace(points, 0) # points
    /\ Len(TreePoints(kdtree)) = 5

----------------------------------------------------------------------------
(* The sampler specification: every image of the test patterns up to      *)
(* MaxSide x MaxSide, every N up to MaxDraws, every draw.                  *)

MaxSide == 3
MaxDraws == 2

Sides == 1..MaxSide

\* test patterns: solid, left/right halves, top/bottom halves, one bright
\* pixel in the middle
Solid(w, h, c) == Image(w, h, [idx \in 0 .. (w * h - 1) |-> c])
VSplit(w, h, a, b) ==
    Image(w, h, [idx \in 0 .. (w * h - 1) |-> IF 2 * (idx % w) < w THEN a ELSE b])
HSplit(w, h, a, b) ==
    Image(w, h, [idx \in 0 .. (w * h - 1) |-> IF 2 * (idx \div w) < h THEN a ELSE b])
Dot(w, h, a, b) ==
    Image(w, h, [idx \in 0 .. (w * h - 1) |->
                    IF idx % w = w \div 2 /\ idx \div w = h \div 2 THEN b ELSE a])

Patterns(w, h) ==
    { Solid(w, h, Red), VSplit(w, h, Red, Blue), HSplit(w, h, Black, White),
      Dot(w, h, Black, White) }

SamplerImages == UNION { Patterns(w, h) : w \in Sides, h \in Sides }

SamplerInit ==
    /\ pc = "sample_start"
    /\ img \in SamplerImages
    /\ numPoints \in 1..MaxDraws
    /\ numColors = 0
    /\ points = <<>>
    /\ quantizedPoints = <<>>
    /\ palIdle
    /\ kdIdle
    /\ optIdle
    /\ outIdle
    /\ entryIdle
    /\ parIdle
    /\ auxIdle

\* step 2 of the pipeline (Voronoi mode)
Sample ==
    /\ pc \in {"sample_start", "palette_done"}
    /\ useVoronoi
    /\ IF numPoints > 0 /\ img.w = 0
       THEN \* idx % width with width 0: integer divide by zero, a run-time panic
            /\ pc' = "panicked"
            /\ UNCHANGED points
       ELSE /\ \E cumulative \in {Cumulative(img)} :
                 \E targets \in [1..numPoints -> DrawTargets(cumulative)] :
                    points' = generateAdaptiveVoronoiPoints(img, numPoints,
                                                            cumulative, targets)
            /\ pc' = "sampled"
    /\ UNCHANGED <<auxVars, entryVars, parVars, inVars, outVars, kdVars, palVars, quantizedPoints>>

SamplerNext == Sample

SpecSampler == SamplerInit /\ [][SamplerNext]_vars

\* C1: the sampler returns exactly N seeds, points[i].Index = i in slice
\* order, every (X, Y) inside the image bounds, whatever values are drawn.
C1_SeedsWellFormed ==
    pc = "sampled" =>
        /\ Len(points) = numPoints
        /\ \A i \in 1..Len(points) :
             /\ points[i].Index = i - 1
             /\ points[i].X \in 0 .. (img.w - 1)
             /\ points[i].Y \in 0 .. (img.h - 1)

\* two seeds on an image whose centre pixel carries an edge (so the weights
\* are unequal): the first on the centre pixel, the second on the last pixel
C1_Witness ==
    /\ pc = "sampled"
    /\ numPoints = 2
    /\ img.w = 3 /\ img.h = 3
    /\ computeEdgeMap(img)[4] > 0
    /\ points[1].X = 1 /\ points[1].Y = 1
    /\ points[2].X = 2 /\ points[2].Y = 2

----------------------------------------------------------------------------
(* The palette specification: generatePalette and kMeansClustering on      *)
(* images that give up to MaxSamples sampled columns, every K up to MaxK,  *)
(* every random choice.                                                    *)

MaxSamples == 3
MaxK == 3

RepeatedColor == RGBA(10, 20, 30, 255)

\* one distinct colour per sampled column and row
Ramp(w, h) ==
    Image(w, h, [idx \in 0 .. (w * h - 1) |->
                    RGBA((10 * (idx % w)) % 256, (20 * (idx \div w)) % 256, 30, 255)])

\* the 10x2 image whose left half is red and right half is blue
HalfRedBlue == VSplit(10, 2, Red, Blue)

PaletteWidths == { 10 * (n - 1) + 1 : n \in 1..MaxSamples } \cup {10}
PaletteHeights == {1, 2, 11}

\* images without pixels: the sampling loops of generatePalette do not run
EmptyImages == { NoImage, Image(0, 2, <<>>), Image(11, 0, <<>>) }

PaletteImages ==
    UNION { { Solid(w, h, RepeatedColor), VSplit(w, h, Red, Blue), Ramp(w, h) } :
              w \in PaletteWidths, h \in PaletteHeights }
    \cup EmptyImages

\* a 71x1 image whose eight sampled pixels (x = 0, 10, ..., 70) carry these
\* red values: with K = 5 and five centroids seeded on the first of them the
\* refinement still moves a centroid in its 15th round
SlowReds == <<149, 146, 144, 45, 141, 104, 131, 143>>
SlowImage ==
    Image(71, 1, [idx \in 0 .. 70 |-> RGBA(SlowReds[(idx \div 10) + 1], 0, 0, 255)])
SlowK == 5

PaletteInit ==
    /\ pc = "palette_start"
    /\ \/ img \in PaletteImages /\ numColors \in 1..MaxK
       \/ img = SlowImage /\ numColors = SlowK
    /\ numPoints = 0
    /\ points = <<>>
    /\ quantizedPoints = <<>>
    /\ palIdle
    /\ kdIdle
    /\ optIdle
    /\ outIdle
    /\ entryIdle
    /\ parIdle
    /\ auxIdle

PaletteNext == GeneratePalette \/ KMStart \/ KMSeed \/ KMIterate

SpecPalette == PaletteInit /\ [][PaletteNext]_vars

\* C5 as stated: the 10x2 half-red/half-blue image with K = 2 gives a palette
\* of exactly 2 entries.
C5_TwoEntries ==
    (pc = "palette_done" /\ img = HalfRedBlue /\ numColors = 2) => Len(palette) = 2

\* C5 as amended: the 10x2 half-red/half-blue image with K = 2 gives a palette
\* of exactly 1 entry, red (the stride-10 sample holds pixel (0,0) only and
\* K >= 1 returns the sample itself).
C5_OneEntryRed ==
    (pc = "palette_done" /\ img = HalfRedBlue /\ numColors = 2) => palette = <<Red>>

C5_Witness ==
    /\ pc = "palette_done"
    /\ img = HalfRedBlue
    /\ numColors = 2
    /\ At(img, 0, 0) = Red /\ At(img, 9, 1) = Blue
    /\ colors = <<Red>>

\* the sample holds nothing but copies of one colour
SingleColorSample == Len(colors) >= 1 /\ \A i \in 1..Len(colors) : colors[i] = colors[1]

\* C9: on a sample of copies of one colour kMeansClustering returns a palette
\* of at least one entry, every entry equal to that colour, for every K >= 1
\* and every random choice.
C9_SingleColorPalette ==
    (pc = "palette_done" /\ SingleColorSample) =>
        /\ Len(palette) >= 1
        /\ \A i \in 1..Len(palette) : palette[i] = colors[1]

\* clustering ran (K below the sample count) on copies of {10,20,30,255}
C9_Witness ==
    /\ pc = "palette_done"
    /\ colors = <<RepeatedColor, RepeatedColor, RepeatedColor>>
    /\ numColors = 2
    /\ iter >= 1
    /\ palette = <<RepeatedColor, RepeatedColor>>

\* C24: the palette builder returns exactly one neutral gray entry
\* (128,128,128,255) when the colour sample is empty, the sample itself
\* (same order, same length, possibly fewer than K entries) when K is at
\* least the sample count, and exactly K entries otherwise.
C24_PaletteSize ==
    pc = "palette_done" =>
        /\ Len(colors) = 0 => palette = <<RGBA(128, 128, 128, 255)>>
        /\ (Len(colors) > 0 /\ numColors >= Len(colors)) => palette = colors
        /\ (Len(colors) > 0 /\ numColors < Len(colors)) => Len(palette) = numColors

\* K equal to the sample count: the two sampled colours are returned as
\* they are, without clustering
C24_Witness ==
    /\ pc = "palette_done"
    /\ Len(colors) = 2 /\ colors[1] # colors[2]
    /\ numColors = 2
    /\ palette = colors
    /\ centroids = <<>>

\* an image without pixels: one gray entry
C24_WitnessGray ==
    /\ pc = "palette_done"
    /\ img.w = 11 /\ img.h = 0
    /\ palette = <<Gray128>>

\* clustering ran: 3 entries from 6 sampled colours
C24_WitnessClustered ==
    /\ pc = "palette_done"
    /\ Len(colors) = 6
    /\ numColors = 3
    /\ Len(palette) = 3
    /\ iter >= 1

SampleSet == {colors[i] : i \in 1 .. Len(colors)}

\* a round of the seeding loop: exactly one centroid, a sampled colour, is
\* appended
SeedingStep ==
    /\ Len(centroids') = Len(centroids) + 1
    /\ SubSeq(centroids', 1, Len(centroids)) = centroids
    /\ centroids'[Len(centroids')] \in SampleSet
    /\ iter' = iter /\ pc' = pc

\* a round of the refinement loop: it is at most the 15th, it is the last
\* one exactly when it changed no centroid or is the 15th, and a cluster
\* without members keeps its centroid
RefinementStep ==
    /\ iter' = iter + 1
    /\ iter' <= 15
    /\ Len(centroids') = numColors
    /\ pc' = "palette_done" <=> (centroids' = centroids \/ iter' = 15)
    /\ pc' = "palette_done" => palette' = centroids'
    /\ pc' # "palette_done" => pc' = "km_loop"
    /\ \A i \in 1 .. Len(centroids) :
          ClusterOf(colors, centroids, i - 1, 1) = <<>> => centroids'[i] = centroids[i]

\* inside the loops the next round goes forward: whatever target is drawn
\* the seeding round appends a centroid, and a refinement round is begun
\* only when fewer than 15 are done
RoundGoesForward ==
    IF Len(centroids) < numColors
    THEN \A target \in DrawTargets(RunningSums(SeedDistances(colors, centroids), 1, 0)) :
            Len(SeedRound(colors, centroids, target)) = Len(centroids) + 1
    ELSE iter < 15

\* C25: for every sample of more than K >= 1 colours kMeansClustering
\* terminates: each seeding round appends exactly one centroid (also when
\* every sampled colour is at distance 0 from the centroids chosen so far),
\* refinement runs at most 15 rounds and stops as soon as a round changes
\* no centroid, and a cluster without members keeps its centroid.  Every
\* round adds one to Len(centroids) + iter, which stays at most K + 15, so
\* the loops end.
C25_ClusteringTerminates ==
    /\ [](pc = "km_loop" =>
            /\ Len(colors) > numColors /\ numColors >= 1
            /\ Len(centroids) <= numColors /\ iter <= 15
            /\ RoundGoesForward)
    /\ [][pc = "km_loop" =>
            IF Len(centroids) < numColors THEN SeedingStep ELSE RefinementStep]_vars

\* three copies of one colour and K = 2: the second centroid was appended
\* at distance 0, and its cluster stayed empty
C25_Witness ==
    /\ pc = "palette_done"
    /\ colors = <<RepeatedColor, RepeatedColor, RepeatedColor>>
    /\ numColors = 2
    /\ centroids = <<RepeatedColor, RepeatedColor>>
    /\ ClusterOf(colors, centroids, 1, 1) = <<>>
    /\ iter = 1

\* 14 rounds are done and the 15th moves a centroid again: the cap ends the
\* refinement
C25_WitnessCap ==
    /\ pc = "km_loop"
    /\ img = SlowImage
    /\ iter = 14
    /\ UpdateCentroids(colors, centroids) # centroids

----------------------------------------------------------------------------
(* The quantizer specification: quantizePoints on every palette of up to   *)
(* MaxPalette entries and every seed list of up to MaxQuantSeeds seeds,    *)
(* then again on its own output.                                           *)

MaxPalette == 3
MaxQuantSeeds == 2

\* palette colours: 100 is equidistant from 0 and 200, and two entries share
\* their RGB and differ in alpha only
PaletteColors ==
    { RGBA(0, 0, 0, 255), RGBA(100, 0, 0, 255), RGBA(100, 0, 0, 128), RGBA(200, 0, 0, 255) }

SeedColors == PaletteColors \cup { RGBA(90, 10, 0, 255) }

QuantPalettes == UNION { [1..n -> PaletteColors] : n \in 1..MaxPalette }

QuantSeeds ==
    UNION { { [i \in 1..n |-> Point(i - 1, 0, cs[i], i - 1)] : cs \in [1..n -> SeedColors] } :
              n \in 1..MaxQuantSeeds }

QuantInit ==
    /\ pc = "quant_start"
    /\ img = NoImage
    /\ numPoints = 0
    /\ numColors = 0
    /\ points \in QuantSeeds
    /\ quantizedPoints = <<>>
    /\ colors = <<>> /\ centroids = <<>> /\ iter = 0
    /\ palette \in QuantPalettes
    /\ kdIdle
    /\ optIdle
    /\ outIdle
    /\ entryIdle
    /\ parIdle
    /\ auxIdle

\* quantizedPoints := quantizePoints(points, palette)
Quantize ==
    /\ pc \in {"quant_start", "sampled"}
    /\ quantizedPoints' = quantizePoints(points, palette)
    /\ pc' = "quantized"
    /\ UNCHANGED <<auxVars, entryVars, parVars, inVars, outVars, palVars, points, kdVars>>

\* the output is handed to quantizePoints again with the same palette
Requantize ==
    /\ pc = "quantized"
    /\ points' = quantizedPoints
    /\ quantizedPoints' = quantizePoints(quantizedPoints, palette)
    /\ pc' = "requantized"
    /\ UNCHANGED <<auxVars, entryVars, parVars, inVars, outVars, palVars, kdVars>>

QuantNext == Quantize \/ Requantize

SpecQuant == QuantInit /\ [][QuantNext]_vars

\* C3: quantizing the output of quantizePoints again with the same palette
\* leaves every seed's colour unchanged in all four channels.
C3_QuantizeIdempotent ==
    pc = "requantized" =>
        /\ Len(quantizedPoints) = Len(points)
        /\ \A i \in 1..Len(points) :
             /\ quantizedPoints[i].Color.R = points[i].Color.R
             /\ quantizedPoints[i].Color.G = points[i].Color.G
             /\ quantizedPoints[i].Color.B = points[i].Color.B
             /\ quantizedPoints[i].Color.A = points[i].Color.A

\* a requantized seed whose palette entry has a later entry of the same RGB
\* and another alpha, in a palette of three entries
C3_Witness ==
    /\ pc = "requantized"
    /\ Len(palette) = 3
    /\ \E i \in 1..Len(points) : \E j, k \in 1..3 :
          /\ j < k
          /\ points[i].Color = palette[j]
          /\ colorDistanceSquared(palette[j], palette[k]) = 0
          /\ palette[j].A # palette[k].A

\* C26: quantizePoints returns a seed list of the same length in the same
\* order in which every seed keeps its X, Y and Index and has for colour an
\* entry of the palette at minimal squared RGB distance from its original
\* colour; the seed list it was given is not modified.
C26_QuantizeFrame ==
    [][pc = "quant_start" =>
          /\ points' = points
          /\ palette' = palette
          /\ Len(quantizedPoints') = Len(points)
          /\ \A i \in 1..Len(points) :
                /\ quantizedPoints'[i].X = points[i].X
                /\ quantizedPoints'[i].Y = points[i].Y
                /\ quantizedPoints'[i].Index = points[i].Index
                /\ \E j \in 1..Len(palette) : quantizedPoints'[i].Color = palette[j]
                /\ \A j \in 1..Len(palette) :
                      colorDistanceSquared(points[i].Color, quantizedPoints'[i].Color)
                          <= colorDistanceSquared(points[i].Color, palette[j])]_vars

\* two seeds, the second of a colour that is no palette entry: it took the
\* entry at distance 200 and kept its place, coordinates and index, and the
\* list handed in still holds the original colour
C26_Witness ==
    /\ pc = "quantized"
    /\ Len(points) = 2 /\ Len(palette) = 3
    /\ points[2] = Point(1, 0, RGBA(90, 10, 0, 255), 1)
    /\ quantizedPoints[2] = Point(1, 0, RGBA(100, 0, 0, 255), 1)
    /\ palette[1] = RGBA(0, 0, 0, 255)

----------------------------------------------------------------------------
(* The rendering specification: the stages after the palette and the seeds *)
(* (rasterization, borders, labeling), in Voronoi and in grid mode.  Small *)
(* images take every seed placement and every border width; images around *)
(* the 100-pixel labeling threshold take seeds on a coarse lattice.        *)

RenderSide == 3
MaxRenderSeeds == 2

TwoColors == <<Red, Blue>>

\* seed lists at the given positions, every colouring from the palette
SeedsAt(positions, n, pal) ==
    { [i \in 1..n |-> Point(ps[i][1], ps[i][2], pal[cs[i]], i - 1)] :
        ps \in [1..n -> positions], cs \in [1..n -> 1..Len(pal)] }

\* seed lists at the given positions, colours alternating through the palette
SeedsAlternating(positions, n, pal) ==
    { [i \in 1..n |-> Point(ps[i][1], ps[i][2], pal[((i - 1) % Len(pal)) + 1], i - 1)] :
        ps \in [1..n -> positions] }

Scenario(mode, im, pal, seeds, lw, show) ==
    [useVoronoi |-> mode, img |-> im, palette |-> pal, seeds |-> seeds,
     lineWidth |-> lw, showColors |-> show]

SmallW == RenderSide
SmallH == RenderSide - 1

SmallVoronoiScenarios ==
    { Scenario(TRUE, Solid(SmallW, SmallH, Red), TwoColors, seeds, lw, show) :
        seeds \in UNION { SeedsAlternating((0 .. (SmallW - 1)) \X (0 .. (SmallH - 1)),
                                           n, TwoColors) : n \in 1..MaxRenderSeeds },
        lw \in 0..5, show \in BOOLEAN }

\* image sizes of 99, 150 and 200 pixels
LabelSizes == { <<11, 9>>, <<15, 10>>, <<20, 10>> }

LabelWidths == {0, 2, 3, 5}

LabelVoronoiScenarios ==
    UNION { { Scenario(TRUE, Solid(d[1], d[2], Red), TwoColors, seeds, lw, TRUE) :
                seeds \in UNION { SeedsAt({0, d[1] \div 2, d[1] - 1} \X {d[2] \div 2},
                                          n, TwoColors) : n \in 1..2 },
                lw \in LabelWidths } : d \in LabelSizes }

\* three vertical stripes a | b | a
Stripes(w, h, a, b) ==
    Image(w, h, [idx \in 0 .. (w * h - 1) |->
                    IF 3 * (idx % w) < w \/ 3 * (idx % w) >= 2 * w THEN a ELSE b])

GridPalettes == { <<Red>>, <<Red, Blue>>, <<Blue, Red>> }

SmallGridScenarios ==
    { Scenario(FALSE, im, pal, <<>>, lw, show) :
        im \in { Solid(SmallW, SmallH, Red), VSplit(SmallW, SmallH, Red, Blue),
                 Stripes(SmallW, SmallH, Red, Blue) },
        pal \in GridPalettes, lw \in 0..5, show \in BOOLEAN }

LabelGridScenarios ==
    { Scenario(FALSE, im, pal, <<>>, lw, show) :
        im \in UNION { { Solid(d[1], d[2], Red), VSplit(d[1], d[2], Red, Blue) } :
                         d \in LabelSizes } \cup { Stripes(30, 10, Red, Blue) },
        pal \in GridPalettes, lw \in LabelWidths, show \in BOOLEAN }

RenderScenarios ==
    SmallVoronoiScenarios \cup LabelVoronoiScenarios
        \cup SmallGridScenarios \cup LabelGridScenarios

RenderInit ==
    \E sc \in RenderScenarios :
        /\ pc = IF sc.useVoronoi THEN "quantized" ELSE "palette_done"
        /\ img = sc.img
        /\ numPoints = Len(sc.seeds)
        /\ numColors = Len(sc.palette)
        /\ lineWidth = sc.lineWidth
        /\ showColors = sc.showColors
        /\ useVoronoi = sc.useVoronoi
        /\ points = <<>>
        /\ quantizedPoints = sc.seeds
        /\ colors = <<>> /\ centroids = <<>> /\ iter = 0
        /\ palette = sc.palette
        /\ kdIdle
        /\ outIdle
        /\ entryIdle
        /\ parIdle
        /\ auxIdle

RenderNext == Rasterize \/ AddBorders \/ AddNumbers \/ GridConvert \/ AddGridNumbers

SpecRender == RenderInit /\ [][RenderNext]_vars

\* the region id of every pixel: the nearest seed's Index, resp. the palette
\* index
RegionIds ==
    IF useVoronoi
    THEN [idx \in PixelIndices(img.w, img.h) |->
             FindNearest(kdtree, idx % img.w, idx \div img.w)]
    ELSE colorIndices

\* the 4-neighbours of a set of pixel indices
Neighbours4(set, w, h) ==
    UNION { ( (IF idx % w > 0 THEN {idx - 1} ELSE {})
              \cup (IF idx % w < w - 1 THEN {idx + 1} ELSE {})
              \cup (IF idx >= w THEN {idx - w} ELSE {})
              \cup (IF idx + w < w * h THEN {idx + w} ELSE {}) ) : idx \in set }

\* the maximal 4-connected set of pixels of one region id around a pixel
RECURSIVE GrowComponent(_, _, _, _, _, _)
GrowComponent(set, frontier, id, ids, w, h) ==
    IF frontier = {} THEN set
    ELSE LET new == { q \in Neighbours4(frontier, w, h) : q \notin set /\ ids[q] = id }
         IN GrowComponent(set \cup new, new, id, ids, w, h)

RECURSIVE ComponentsOf(_, _, _, _)
ComponentsOf(remaining, ids, w, h) ==
    IF remaining = {} THEN {}
    ELSE LET p == CHOOSE q \in remaining : TRUE
             c == GrowComponent({p}, {p}, ids[p], ids, w, h)
         IN {c} \cup ComponentsOf(remaining \ c, ids, w, h)

Components == ComponentsOf(PixelIndices(img.w, img.h), RegionIds, img.w, img.h)

\* the sum over a pixel set of coordinate k (1 for x, 2 for y), by coordinate
\* value from v up
RECURSIVE SumOver(_, _, _, _)
SumOver(set, w, k, v) ==
    LET at == { idx \in set : (IF k = 1 THEN idx % w ELSE idx \div w) = v }
    IN IF set = {} THEN 0
       ELSE v * Cardinality(at) + SumOver({ idx \in set : idx \notin at }, w, k, v + 1)

\* the integer mean of the member coordinates
CentroidOf(c) ==
    <<SumOver(c, img.w, 1, 0) \div Cardinality(c),
      SumOver(c, img.w, 2, 0) \div Cardinality(c)>>

C7_OneStampPerLargeRegion ==
    (pc = "done" /\ lineWidth <= 2) =>
        \A large \in { { c \in Components : Cardinality(c) >= MinRegionPixels } } :
           /\ Len(stamps) = Cardinality(large)
           /\ \A c \in large : \E i \in 1..Len(stamps) :
                 <<stamps[i].X, stamps[i].Y>> = CentroidOf(c)
           /\ \A i \in 1..Len(stamps) :
                 /\ \E c \in large : <<stamps[i].X, stamps[i].Y>> = CentroidOf(c)
                 /\ \A q \in NumberPixels(stamps[i].num, stamps[i].X, stamps[i].Y,
                                          img.w, img.h) :
                       result[q[2] * img.w + q[1]] = Black

\* a 15x10 image split in a region of at least 100 pixels and a smaller one:
\* one stamp, at the centroid of the large region
C7_Witness ==
    /\ pc = "done"
    /\ lineWidth <= 2
    /\ img.w = 15 /\ img.h = 10
    /\ Len(fills) = 2
    /\ \E i, j \in 1..2 :
          /\ Len(fills[i].Pixels) >= 100
          /\ Len(fills[j].Pixels) < 100
          /\ Len(stamps) = 1
          /\ <<stamps[1].X, stamps[1].Y>> = Centroid(fills[i].Pixels)

\* ceil(W/2): the least n with 2n >= W
HalfUp(width) == CHOOSE n \in 0 .. width : 2 * n >= width /\ \A k \in 0 .. (n - 1) : 2 * k < width

\* some in-bounds pixel other than idx, within Euclidean distance
\* ceil(W/2) of it, has another id than idx
OtherRegionNear(idx, ids, width) ==
    \E jdx \in PixelIndices(img.w, img.h) :
        /\ jdx # idx
        /\ distanceSquared(idx % img.w, idx \div img.w, jdx % img.w, jdx \div img.w)
               <= HalfUp(width) * HalfUp(width)
        /\ ids[jdx] # ids[idx]

\* the id the border pass gives a pixel: the seed findNearestPoint returns,
\* the first of the nearest seeds in slice order, resp. the palette index
BorderPassIds ==
    IF useVoronoi THEN NearestMap(quantizedPoints, img.w, img.h) ELSE colorIndices

\* C20: for border width 1..5, in both modes, a pixel of the bordered image
\* is pure black if and only if another in-bounds pixel within Euclidean
\* distance ceil(W/2) has a different region id (the index of the seed the
\* rasterizer painted the pixel from, resp. the palette index); every other
\* pixel has the colour of the rasterized image.
C20_BlackIffRegionEdge ==
    (pc \in {"bordered", "done"} /\ lineWidth \in 1..5) =>
        \A ids \in {RegionIds} :
           \A idx \in PixelIndices(img.w, img.h) :
              /\ bordered[idx] = Black <=> OtherRegionNear(idx, ids, lineWidth)
              /\ bordered[idx] # Black => bordered[idx] = voronoi[idx]

\* what holds of the border pass: the same with the ids the pass computes
\* itself
C20_BlackIffBorderPassEdge ==
    (pc \in {"bordered", "done"} /\ lineWidth \in 1..5) =>
        \A ids \in {BorderPassIds} :
           \A idx \in PixelIndices(img.w, img.h) :
              bordered[idx] = IF OtherRegionNear(idx, ids, lineWidth)
                              THEN Black ELSE voronoi[idx]

\* a pixel as near to one seed as to another: the rasterizer paints it from
\* one of them, the border pass counts it to the other
C20_TiePixel ==
    /\ pc = "bordered" /\ useVoronoi /\ showColors /\ lineWidth = 1
    /\ \E idx \in PixelIndices(img.w, img.h) :
          /\ RegionIds[idx] # BorderPassIds[idx]
          /\ voronoi[idx] # quantizedPoints[BorderPassIds[idx] + 1].Color

\* C29: for every seed set (equidistant seeds and several seeds on one pixel
\* included) and every pixel, the index findNearestPoint computes by linear
\* scan for the border pass equals the index KDTree.FindNearest gives the
\* rasterizer and the labeler, so that the border pass marks a pixel only
\* where the rasterized region assignment changes within the disc.
C29_ScanAgreesWithTree ==
    (useVoronoi /\ pc \in {"rasterized", "bordered", "done"}) =>
        \A idx \in PixelIndices(img.w, img.h) :
           /\ findNearestPoint(idx % img.w, idx \div img.w, quantizedPoints)
                 = FindNearest(kdtree, idx % img.w, idx \div img.w)
           /\ \A width \in 1..5 :
                 isBorderPixelWithWidth(idx % img.w, idx \div img.w, img.w, img.h,
                                        BorderPassIds, width)
                    => OtherRegionNear(idx, RegionIds, width)

\* two seeds on one pixel: the linear scan answers the first of them at
\* every pixel of the image, the tree the other one
C29_SameSpotSeeds ==
    /\ useVoronoi /\ pc = "rasterized"
    /\ Len(quantizedPoints) = 2
    /\ quantizedPoints[1].X = quantizedPoints[2].X
    /\ quantizedPoints[1].Y = quantizedPoints[2].Y
    /\ \A idx \in PixelIndices(img.w, img.h) :
          /\ BorderPassIds[idx] = 0
          /\ RegionIds[idx] = 1

\* the pixel indices of a flood fill
FillSet(f) == { f.Pixels[i][2] * img.w + f.Pixels[i][1] : i \in 1..Len(f.Pixels) }

RECURSIVE PixelsFilled(_)
PixelsFilled(k) == IF k = 0 THEN 0 ELSE Len(fills[k].Pixels) + PixelsFilled(k - 1)

\* C30: the flood-fill labeling pass ends and partitions the image: after
\* findRegions (resp. addGridRegionNumbers) every pixel has been visited
\* exactly once and belongs to exactly one flood fill, each flood fill is a
\* maximal 4-connected set of pixels of one region id, and no pixel is in
\* two fills or in a fill of another region id.
C30_FillsPartition ==
    (pc = "done" /\ lineWidth <= 2) =>
        /\ UNION { FillSet(fills[k]) : k \in 1..Len(fills) } = PixelIndices(img.w, img.h)
        /\ PixelsFilled(Len(fills)) = img.w * img.h
        /\ \A k \in 1..Len(fills) :
              /\ FillSet(fills[k]) \in Components
              /\ \A idx \in FillSet(fills[k]) : RegionIds[idx] = fills[k].ColorIndex
              /\ \A j \in 1..Len(fills) : j # k => FillSet(fills[j]) \cap FillSet(fills[k]) = {}

\* an image of three regions of which two have the same id in grid mode, or
\* of more fills than region ids: some id was flood filled twice
C30_Witness ==
    /\ pc = "done" /\ lineWidth <= 2
    /\ Len(fills) >= 3
    /\ \E j, k \in 1..Len(fills) : j # k /\ fills[j].ColorIndex = fills[k].ColorIndex
    /\ PixelsFilled(Len(fills)) = img.w * img.h

\* a Voronoi scene of two fills in which the second one holds a pixel to the
\* left of the pixel it started from
C30_WitnessLeft ==
    /\ pc = "done" /\ lineWidth <= 2 /\ useVoronoi
    /\ Len(fills) = 2
    /\ \E i \in 1..Len(fills[2].Pixels) : fills[2].Pixels[i][1] < fills[2].Pixels[1][1]

\* C17: labeling runs exactly when the border width is at most 2. For width
\* 3, 4 or 5, in Voronoi and in grid mode, no flood fill is made, no numeral
\* is stamped and the output is the bordered image; for width 0, 1 or 2 the
\* image is flood filled and the output is the bordered image with the
\* numerals of the regions found drawn on it.
C17_LabelingIffNarrow ==
    pc = "done" =>
        /\ lineWidth > 2 => fills = <<>> /\ stamps = <<>> /\ result = bordered
        /\ lineWidth <= 2 =>
              /\ fills # <<>>
              /\ Len(stamps) = Len(SelectSeq(fills, LAMBDA f : Len(f.Pixels) >= MinRegionPixels))
              /\ result = drawNumbers(bordered, stamps, img.w, img.h)

\* a 20x10 image with border width 3, large enough for a numeral: none
C17_Witness ==
    /\ pc = "done"
    /\ lineWidth = 3
    /\ img.w = 20 /\ img.h = 10
    /\ stamps = <<>> /\ result = bordered

\* the same size with border width 2: a numeral is stamped
C17_WitnessLabeled ==
    /\ pc = "done"
    /\ lineWidth = 2
    /\ img.w = 20 /\ img.h = 10
    /\ Len(stamps) > 0 /\ result # bordered

\* the flood fills that were labeled, in stamping order
KeptFills == SelectSeq(fills, LAMBDA f : Len(f.Pixels) >= MinRegionPixels)

\* the colour a region is filled with: its seed's quantized colour, resp. the
\* palette entry of its pixels
RegionColor(f) ==
    IF useVoronoi THEN quantizedPoints[f.ColorIndex + 1].Color
    ELSE palette[f.ColorIndex + 1]

\* the 0-based position of a colour in the returned palette
PalettePosition(c) ==
    (CHOOSE j \in 1..Len(palette) :
        palette[j] = c /\ \A k \in 1 .. (j - 1) : palette[k] # c) - 1

\* C8: the numeral stamped on a region is the 1-based palette number of the
\* colour the region is filled with, in Voronoi mode as in grid mode.
C8_NumeralIsPaletteNumber ==
    (pc = "done" /\ lineWidth <= 2) =>
        /\ Len(stamps) = Len(KeptFills)
        /\ \A i \in 1..Len(stamps) :
              stamps[i].num = PalettePosition(RegionColor(KeptFills[i])) + 1

----------------------------------------------------------------------------
(* The end-to-end scenario: convertToPaintByNumbersWithParamsAndColors on a *)
(* 4x4 solid red image with 4 points, 1 colour, border width 0, colours    *)
(* shown, under every placement of the seeds.                              *)

SolidRedInit ==
    /\ pc = "palette_start"
    /\ img = Solid(4, 4, Red)
    /\ numPoints = 4
    /\ numColors = 1
    /\ lineWidth = 0
    /\ showColors = TRUE
    /\ useVoronoi = TRUE
    /\ points = <<>>
    /\ quantizedPoints = <<>>
    /\ palIdle
    /\ kdIdle
    /\ outIdle
    /\ entryIdle
    /\ parIdle
    /\ auxIdle

SolidRedNext ==
    GeneratePalette \/ KMStart \/ Sample \/ Quantize \/ Rasterize \/ AddBorders \/ AddNumbers

SpecSolidRed == SolidRedInit /\ [][SolidRedNext]_vars

\* C6: on the 4x4 solid red image with N=4, K=1, width 0 in Voronoi mode,
\* whatever the seed placement, the output is a 4x4 image whose every pixel
\* is red, and the returned palette is exactly one entry, red.
C6_SolidRedEndToEnd ==
    /\ pc \notin {"palette_start", "km_start"} => palette = <<Red>>
    /\ pc = "done" =>
          /\ DOMAIN result = PixelIndices(4, 4)
          /\ \A idx \in DOMAIN result : result[idx] = Red

\* the run finished from four seeds at four different pixels
C6_Witness ==
    /\ pc = "done"
    /\ Len(quantizedPoints) = 4
    /\ Cardinality({ <<quantizedPoints[i].X, quantizedPoints[i].Y>> : i \in 1..4 }) = 4
    /\ \A idx \in PixelIndices(4, 4) : result[idx] = Red
    /\ palette = <<Red>>

----------------------------------------------------------------------------
(* The entry points: processImage of the WebAssembly build (main.go) and   *)
(* parseRequest of the HTTP server.  An image payload is [present, valid,  *)
(* w, h]; the pixels of a decoded image are not part of this section, its  *)
(* bounds are.                                                             *)

\* const ( maxPoints = 50000; maxColors = 64; maxDimension = 4096 )
maxPoints == 50000
maxColors == 64
maxDimension == 4096

\* downsampleImage with the scaled side rounded up
downsampleImage_roundUp(im, maxDimensionArg) ==
    IF im.w <= maxDimensionArg /\ im.h <= maxDimensionArg THEN im
    ELSE IF im.w > im.h
    THEN Image(maxDimensionArg, (im.h * maxDimensionArg + im.w - 1) \div im.w, <<>>)
    ELSE Image((im.w * maxDimensionArg + im.h - 1) \div im.h, maxDimensionArg, <<>>)

\* the bounds an image keeps or gets in downsampleImage: unchanged when both
\* sides fit, else the longer side becomes maxDimension and the other side is
\* scaled with integer division (the bounds resizeBilinear is called with)
downsampleImage(im, maxDimensionArg) ==
    IF im.w <= maxDimensionArg /\ im.h <= maxDimensionArg THEN im
    ELSE IF im.w > im.h
    THEN Image(maxDimensionArg, (im.h * maxDimensionArg) \div im.w, <<>>)
    ELSE Image((im.w * maxDimensionArg) \div im.h, maxDimensionArg, <<>>)

\* processImage, "Validate parameters", with the lower bound of the points
\* at 1
validateParameters_pointsFrom1(np, nc, lw, md) ==
    IF np < 1 \/ np > 50000 THEN "Points must be between 50 and 50000"
    ELSE IF nc < 2 \/ nc > 64 THEN "Colors must be between 2 and 64"
    ELSE IF lw < 0 \/ lw > 5 THEN "Line width must be between 0 and 5"
    ELSE IF md < 256 \/ md > 4096 THEN "Max dimension must be between 256 and 4096"
    ELSE ""

\* processImage, "Validate parameters": the error of the first failed check,
\* "" when all four pass
validateParameters(np, nc, lw, md) ==
    IF np < 50 \/ np > 50000 THEN "Points must be between 50 and 50000"
    ELSE IF nc < 2 \/ nc > 64 THEN "Colors must be between 2 and 64"
    ELSE IF lw < 0 \/ lw > 5 THEN "Line width must be between 0 and 5"
    ELSE IF md < 256 \/ md > 4096 THEN "Max dimension must be between 256 and 4096"
    ELSE ""

\* processImage up to the end of the parameter validation: the arguments are
\* read, and the first failed check returns its error
ProcessImageValidate ==
    /\ pc = "wasm_call"
    /\ numPoints' = request.points
    /\ numColors' = request.colors
    /\ lineWidth' = request.lineWidth
    /\ maxDim' = request.maxDimension
    /\ showColors' = request.showColors
    /\ useVoronoi' = request.useVoronoi
    /\ errMsg' = validateParameters(numPoints', numColors', lineWidth', maxDim')
    /\ pc' = IF errMsg' # "" THEN "returned" ELSE "wasm_decode"
    /\ UNCHANGED <<auxVars, parVars, request, decoded, img, palVars, outVars, points, quantizedPoints, kdVars>>

\* processImage: image.Decode and its error return
ProcessImageDecode ==
    /\ pc = "wasm_decode"
    /\ decoded' = TRUE
    /\ IF request.image.valid
       THEN /\ img' = Image(request.image.w, request.image.h, <<>>)
            /\ pc' = "wasm_downsample"
            /\ UNCHANGED errMsg
       ELSE /\ errMsg' = "Failed to decode image"
            /\ pc' = "returned"
            /\ UNCHANGED img
    /\ UNCHANGED <<auxVars, parVars, request, maxDim, numPoints, numColors, lineWidth, showColors,
                   useVoronoi, palVars, outVars, points, quantizedPoints, kdVars>>

\* processImage: downsampleImage, then the pipeline is called
ProcessImageDownsample ==
    /\ pc = "wasm_downsample"
    /\ img' = downsampleImage(img, maxDim)
    /\ pc' = "wasm_convert"
    /\ UNCHANGED <<auxVars, entryVars, parVars, numPoints, numColors, lineWidth, showColors,
                   useVoronoi, palVars, outVars, points, quantizedPoints, kdVars>>

\* strconv.Atoi on a form value [kind, val]: kind "int" is a decimal integer,
\* "text" any other non-empty string, "empty" the empty string
AtoiOk(v) == v.kind = "int"

\* parseRequest: the max dimension used, 2048 unless the form value is an
\* integer in 1..maxDimension
FormMaxDim(v) ==
    IF v.kind # "empty" /\ AtoiOk(v) /\ v.val > 0 /\ v.val <= maxDimension
    THEN v.val ELSE 2048

\* parseRequest: the form value when it is a positive integer, capped at limit,
\* else the default
FormLimited(v, default, limit) ==
    IF v.kind # "empty" /\ AtoiOk(v) /\ v.val > 0
    THEN IF v.val > limit THEN limit ELSE v.val
    ELSE default

\* parseRequest, and the early return of the handler on its error
ParseRequest ==
    /\ pc = "http_call"
    /\ IF ~request.image.present
       THEN /\ errMsg' = "failed to get image"
            /\ pc' = "returned"
            /\ UNCHANGED <<decoded, img, maxDim, numPoints, numColors>>
       ELSE IF ~request.image.valid
       THEN /\ decoded' = TRUE
            /\ errMsg' = "failed to decode image"
            /\ pc' = "returned"
            /\ UNCHANGED <<img, maxDim, numPoints, numColors>>
       ELSE /\ decoded' = TRUE
            /\ maxDim' = FormMaxDim(request.maxDimension)
            /\ img' = downsampleImage(Image(request.image.w, request.image.h, <<>>), maxDim')
            /\ numPoints' = FormLimited(request.points, 2000, maxPoints)
            /\ numColors' = FormLimited(request.colors, 12, maxColors)
            /\ pc' = "http_convert"
            /\ UNCHANGED errMsg
    /\ UNCHANGED <<auxVars, parVars, request, lineWidth, showColors, useVoronoi, palVars, outVars,
                   points, quantizedPoints, kdVars>>

\* the requests: every parameter within EntrySlack of each limit the entry
\* points or their documentation name
EntrySlack == 1

Near(n) == (n - EntrySlack) .. (n + EntrySlack)

Payload(present, valid, w, h) == [present |-> present, valid |-> valid, w |-> w, h |-> h]

EntryImages ==
    { Payload(TRUE, FALSE, 0, 0), Payload(TRUE, TRUE, 100, 80),
      Payload(TRUE, TRUE, 5000, 3000), Payload(TRUE, TRUE, 300, 5000) }

WasmRequests ==
    [entry : {"wasm"},
     image : EntryImages,
     points : Near(1) \cup Near(50) \cup Near(50000),
     colors : Near(2) \cup Near(64),
     lineWidth : Near(0) \cup Near(5),
     maxDimension : Near(256) \cup Near(4096),
     showColors : {TRUE},
     useVoronoi : {TRUE}]

FormValues(ints) ==
    { [kind |-> "empty", val |-> 0], [kind |-> "text", val |-> 0] }
        \cup { [kind |-> "int", val |-> n] : n \in ints }

HttpRequests ==
    [entry : {"http"},
     image : EntryImages \cup { Payload(FALSE, FALSE, 0, 0) },
     points : FormValues(Near(0) \cup Near(50) \cup Near(50000)),
     colors : FormValues(Near(0) \cup Near(2) \cup Near(64)),
     maxDimension : FormValues(Near(0) \cup Near(256) \cup Near(4096))]

EntryInit ==
    /\ request \in WasmRequests \cup HttpRequests
    /\ pc = IF request.entry = "wasm" THEN "wasm_call" ELSE "http_call"
    /\ img = NoImage
    /\ numPoints = 0
    /\ numColors = 0
    /\ maxDim = 0
    /\ errMsg = ""
    /\ decoded = FALSE
    /\ points = <<>>
    /\ quantizedPoints = <<>>
    /\ palIdle
    /\ kdIdle
    /\ optIdle
    /\ outIdle
    /\ parIdle
    /\ auxIdle

EntryNext ==
    ProcessImageValidate \/ ProcessImageDecode \/ ProcessImageDownsample \/ ParseRequest

SpecEntry == EntryInit /\ [][EntryNext]_vars

\* the errors that name a violated bound
BoundErrors ==
    { "Points must be between 50 and 50000", "Colors must be between 2 and 64",
      "Line width must be between 0 and 5", "Max dimension must be between 256 and 4096" }

\* the entry point has decided on the request
Decided == pc \in {"returned", "wasm_decode", "wasm_downsample", "wasm_convert", "http_convert"}

Rejected == pc = "returned" /\ errMsg \in BoundErrors

\* the value a request asks for: the argument, or the form value when it is
\* an integer
Asks(v) == IF request.entry = "wasm" THEN [given |-> TRUE, val |-> v]
           ELSE [given |-> v.kind = "int", val |-> v.val]

AsksOutside(v, lo, hi) == Asks(v).given /\ Asks(v).val \notin lo..hi

\* C10 as stated: the entry point rejects, with an error naming the bound and
\* before any decoding, exactly the requests with N outside 1..50000,
\* K outside 2..64, width outside 0..5 or max dimension outside 256..4096;
\* it accepts every other request and never clamps or defaults a value.
C10_RejectsExactlyOutsideBounds ==
    Decided =>
        /\ Rejected <=>
              \/ AsksOutside(request.points, 1, 50000)
              \/ AsksOutside(request.colors, 2, 64)
              \/ request.entry = "wasm" /\ AsksOutside(request.lineWidth, 0, 5)
              \/ AsksOutside(request.maxDimension, 256, 4096)
        /\ Rejected => ~decoded
        /\ (~Rejected /\ Asks(request.points).given) => numPoints = Asks(request.points).val
        /\ (~Rejected /\ Asks(request.colors).given) => numColors = Asks(request.colors).val
        /\ (~Rejected /\ Asks(request.maxDimension).given) =>
              maxDim = Asks(request.maxDimension).val

\* C10 as amended: processImage rejects, before decoding, exactly the calls
\* with N outside 50..50000, K outside 2..64, width outside 0..5 or max
\* dimension outside 256..4096, with the error of the first violated bound,
\* and runs every other call with the values as given.  parseRequest never
\* rejects for a parameter: a form value that is missing, not an integer or
\* not positive is replaced by the default (2000 points, 12 colours, max
\* dimension 2048), points above 50000 and colours above 64 are clamped to
\* the limit, and a max dimension above 4096 is replaced by 2048.
C10_EntryValidation ==
    /\ (Decided /\ request.entry = "wasm") =>
          /\ Rejected <=>
                \/ request.points \notin 50..50000
                \/ request.colors \notin 2..64
                \/ request.lineWidth \notin 0..5
                \/ request.maxDimension \notin 256..4096
          /\ Rejected => /\ ~decoded
                         /\ img = NoImage
                         /\ errMsg =
                              IF request.points \notin 50..50000
                              THEN "Points must be between 50 and 50000"
                              ELSE IF request.colors \notin 2..64
                              THEN "Colors must be between 2 and 64"
                              ELSE IF request.lineWidth \notin 0..5
                              THEN "Line width must be between 0 and 5"
                              ELSE "Max dimension must be between 256 and 4096"
          /\ numPoints = request.points /\ numColors = request.colors
          /\ lineWidth = request.lineWidth /\ maxDim = request.maxDimension
    /\ (Decided /\ request.entry = "http") =>
          /\ ~Rejected
          /\ pc = "returned" <=> ~(request.image.present /\ request.image.valid)
          /\ pc = "http_convert" =>
                /\ numPoints =
                     IF ~Asks(request.points).given \/ request.points.val <= 0 THEN 2000
                     ELSE IF request.points.val > 50000 THEN 50000
                     ELSE request.points.val
                /\ numColors =
                     IF ~Asks(request.colors).given \/ request.colors.val <= 0 THEN 12
                     ELSE IF request.colors.val > 64 THEN 64
                     ELSE request.colors.val
                /\ maxDim =
                     IF Asks(request.maxDimension).given
                        /\ request.maxDimension.val \in 1..4096
                     THEN request.maxDimension.val ELSE 2048

\* a call of processImage with 49 points, the other parameters in bounds:
\* rejected for the points before the image is decoded
C10_Witness ==
    /\ request.entry = "wasm"
    /\ pc = "returned"
    /\ request.points = 49
    /\ request.colors \in 2..64
    /\ request.lineWidth \in 0..5
    /\ request.maxDimension \in 256..4096
    /\ errMsg = "Points must be between 50 and 50000"
    /\ ~decoded

----------------------------------------------------------------------------
(* processImage on images of zero area: images so thin that downsampleImage *)
(* scales the short side to 0, and decoded buffers of width 0.  The run    *)
(* goes from the call through validation, decoding, downsampling and the   *)
(* pipeline to the PNG encoding.                                           *)

\* processImage: convertToPaintByNumbersWithMode is called
ProcessImageConvert ==
    /\ pc = "wasm_convert"
    /\ pc' = "palette_start"
    /\ UNCHANGED <<auxVars, entryVars, parVars, inVars, palVars, outVars, points, quantizedPoints, kdVars>>

\* processImage: png.Encode of the pipeline result, which fails for an image
\* of non-positive width or height, and the response
ProcessImageEncode ==
    /\ pc = "done"
    /\ IF img.w <= 0 \/ img.h <= 0
       THEN errMsg' = "Failed to encode result" /\ pc' = "returned"
       ELSE errMsg' = "" /\ pc' = "responded"
    /\ UNCHANGED <<auxVars, parVars, request, maxDim, decoded, inVars, palVars, outVars, points,
                   quantizedPoints, kdVars>>

\* how far past the maximum dimension the long side of a thin image goes
ThinExcess == 1

ThinMaxDimensions == {256, 512}

\* one-pixel-thin images longer than md, and buffers decoded with width 0
ZeroAreaImages(md) ==
    UNION { { Payload(TRUE, TRUE, md + e, 1), Payload(TRUE, TRUE, 1, md + e) } :
              e \in 1..ThinExcess }
        \cup { Payload(TRUE, TRUE, 0, 0), Payload(TRUE, TRUE, 0, 3) }

ZeroAreaRequests ==
    UNION { [entry : {"wasm"},
             image : ZeroAreaImages(md),
             points : {50},
             colors : {2},
             lineWidth : {0, 3},
             maxDimension : {md},
             showColors : BOOLEAN,
             useVoronoi : BOOLEAN] : md \in ThinMaxDimensions }

ZeroAreaInit ==
    /\ request \in ZeroAreaRequests
    /\ pc = "wasm_call"
    /\ img = NoImage
    /\ numPoints = 0
    /\ numColors = 0
    /\ maxDim = 0
    /\ errMsg = ""
    /\ decoded = FALSE
    /\ points = <<>>
    /\ quantizedPoints = <<>>
    /\ palIdle
    /\ kdIdle
    /\ optIdle
    /\ outIdle
    /\ parIdle
    /\ auxIdle

ZeroAreaNext ==
    \/ ProcessImageValidate \/ ProcessImageDecode \/ ProcessImageDownsample
    \/ ProcessImageConvert
    \/ GeneratePalette \/ KMStart \/ Sample \/ Quantize \/ Rasterize \/ AddBorders
    \/ AddNumbers \/ GridConvert \/ AddGridNumbers
    \/ ProcessImageEncode

SpecZeroArea == ZeroAreaInit /\ [][ZeroAreaNext]_vars

\* the pipeline stages have started on the image
InPipeline ==
    pc \in {"km_start", "palette_done", "sampled", "quantized", "rasterized",
            "bordered", "done", "responded", "panicked"}

\* C11: a decoded buffer of zero area (as decoded, or after downsampling) is
\* answered with a validation error: no pipeline stage runs on it, the run
\* never panics, and the error returned is not an encoding failure.
C11_ZeroAreaIsValidationError ==
    (decoded /\ pc \notin {"wasm_decode", "wasm_downsample"} /\ img.w * img.h = 0) =>
        /\ pc # "panicked"
        /\ ~InPipeline
        /\ pc = "returned" => errMsg \notin {"", "Failed to encode result"}

----------------------------------------------------------------------------
(* The parallel rasterizer, createVoronoiDiagramWithProgress, one step per  *)
(* shared-memory operation: the goroutine that calls it (the pipeline), the *)
(* eight workers, the progress tracking goroutine and the listener behind   *)
(* the progress callback.  A call of the callback is synchronous: the       *)
(* caller is inside it until the listener returns.                          *)

numWorkers == 8

\* rowsPerWorker := (height + numWorkers - 1) / numWorkers
rowsPerWorker_floor(height) == height \div numWorkers
rowsPerWorker(height) == (height + numWorkers - 1) \div numWorkers

\* startY := w * rowsPerWorker
startY(w, height) == w * rowsPerWorker(height)

\* endY := (w + 1) * rowsPerWorker, clamped to height
endY(w, height) ==
    IF (w + 1) * rowsPerWorker(height) > height THEN height
    ELSE (w + 1) * rowsPerWorker(height)

WorkerIds == 0 .. (numWorkers - 1)

\* where a worker is once its row loops are over: at the send on
\* progressChan when a callback was passed, else at the deferred wg.Done
AfterRows == IF progress THEN "sending" ELSE "exiting"

\* image.NewRGBA(bounds): every pixel the zero colour
NewRGBA(w, h) == [idx \in PixelIndices(w, h) |-> RGBA(0, 0, 0, 0)]

\* createVoronoiDiagramWithProgress up to the first callback call
RasterNew ==
    /\ pc = "raster_call"
    /\ voronoi' = NewRGBA(img.w, img.h)
    /\ writers' = [idx \in PixelIndices(img.w, img.h) |-> <<>>]
    /\ pc' = IF progress THEN "progress_25" ELSE "raster_index"
    /\ UNCHANGED <<auxVars, entryVars, inVars, palVars, kdVars, points, quantizedPoints,
                   colorIndices, bordered, result, regions, stamps, fills,
                   progress, workers, spawned, wg, progressChan, tracker, reports>>

\* kdtree := NewKDTree(points), then the second callback call
RasterIndex ==
    /\ pc = "raster_index"
    /\ kdtree' = NewKDTree(quantizedPoints)
    /\ pc' = IF progress THEN "progress_30" ELSE "raster_setup"
    /\ UNCHANGED <<auxVars, entryVars, inVars, palVars, outVars, parVars, points,
                   quantizedPoints, query, nearest>>

\* the wait group, the channel of capacity numWorkers, and the progress
\* tracking goroutine, started only when a callback was passed
RasterSetup ==
    /\ pc = "raster_setup"
    /\ wg' = 0
    /\ progressChan' = NoChan
    /\ tracker' = IF progress THEN [state |-> "receiving", completed |-> 0] ELSE NoTracker
    /\ workers' = NoWorkers
    /\ spawned' = 0
    /\ pc' = "raster_spawn"
    /\ UNCHANGED <<auxVars, entryVars, inVars, palVars, outVars, kdVars, points,
                   quantizedPoints, progress, reports, writers>>

\* one round of the loop that starts the workers: wg.Add(1), the row range,
\* go func(sy, ey)
RasterSpawn ==
    /\ pc = "raster_spawn"
    /\ spawned < numWorkers
    /\ wg' = wg + 1
    /\ \E sy \in {startY(spawned, img.h)}, ey \in {endY(spawned, img.h)} :
          workers' = [workers EXCEPT ![spawned] =
              [state |-> IF sy < ey /\ img.w > 0 THEN "running" ELSE AfterRows,
               sy |-> sy, ey |-> ey, y |-> sy, x |-> 0]]
    /\ spawned' = spawned + 1
    /\ pc' = IF spawned + 1 < numWorkers THEN "raster_spawn" ELSE "raster_wait"
    /\ UNCHANGED <<auxVars, entryVars, inVars, palVars, outVars, kdVars, points,
                   quantizedPoints, progress, progressChan, tracker, reports, writers>>

\* a worker: img.Set(x, y, points[kdtree.FindNearest(x, y)].Color), and the
\* loop variables advanced
WorkerSet(w) ==
    /\ workers[w].state = "running"
    /\ \E idx \in {workers[w].y * img.w + workers[w].x} :
          /\ voronoi' = [voronoi EXCEPT ![idx] =
                quantizedPoints[FindNearest(kdtree, workers[w].x, workers[w].y) + 1].Color]
          /\ writers' = [writers EXCEPT ![idx] = Append(@, w)]
    /\ workers' = [workers EXCEPT ![w] =
          IF @.x + 1 < img.w THEN [@ EXCEPT !.x = @ + 1]
          ELSE IF @.y + 1 < @.ey THEN [@ EXCEPT !.x = 0, !.y = @ + 1]
          ELSE [@ EXCEPT !.x = 0, !.y = @ + 1, !.state = AfterRows]]
    /\ UNCHANGED <<auxVars, pc, entryVars, inVars, palVars, kdVars, points, quantizedPoints,
                   colorIndices, bordered, result, regions, stamps, fills,
                   progress, spawned, wg, progressChan, tracker, reports>>

\* a worker: progressChan <- 1, which waits while the buffer is full
WorkerSend(w) ==
    /\ workers[w].state = "sending"
    /\ progressChan.len < numWorkers
    /\ progressChan' = [progressChan EXCEPT !.len = @ + 1]
    /\ workers' = [workers EXCEPT ![w].state = "exiting"]
    /\ UNCHANGED <<auxVars, pc, entryVars, inVars, palVars, outVars, kdVars, points,
                   quantizedPoints, progress, spawned, wg, tracker, reports, writers>>

\* a worker: the deferred wg.Done()
WorkerDone(w) ==
    /\ workers[w].state = "exiting"
    /\ wg' = wg - 1
    /\ workers' = [workers EXCEPT ![w].state = "exited"]
    /\ UNCHANGED <<auxVars, pc, entryVars, inVars, palVars, outVars, kdVars, points,
                   quantizedPoints, progress, spawned, progressChan, tracker,
                   reports, writers>>

\* the tracking goroutine: one value received, completed++, and the callback
\* called with 30 + (completed*40)/numWorkers
TrackerReceive ==
    /\ tracker.state = "receiving"
    /\ progressChan.len > 0
    /\ progressChan' = [progressChan EXCEPT !.len = @ - 1]
    /\ tracker' = [state |-> "reporting", completed |-> tracker.completed + 1]
    /\ UNCHANGED <<auxVars, pc, entryVars, inVars, palVars, outVars, kdVars, points,
                   quantizedPoints, progress, workers, spawned, wg, reports, writers>>

\* the callback returns to the goroutine `who` that called it: a callback
\* handed in directly is modelled as one step; progressCallback of
\* handleConvertSSE holds progressMu from its first to its last statement
CallbackReturns(who) == sse.handler = "none" \/ sse.mu = who

\* defer progressMu.Unlock(), after Fprintf and Flush
AfterCallback(who) ==
    IF sse.handler = "none" THEN sse
    ELSE [sse EXCEPT !.mu = "free", !.writing = @ \ {who}]

\* percent := 30 + (completed*40)/numWorkers
percent_beforeIncrement(completed) == 30 + ((completed - 1) * 40) \div numWorkers
percent(completed) == 30 + (completed * 40) \div numWorkers

\* the listener returns from the call the tracking goroutine made
TrackerProgressReturn ==
    /\ tracker.state = "reporting"
    /\ CallbackReturns("tracker")
    /\ sse' = AfterCallback("tracker")
    /\ reports' = Append(reports, <<"Creating regions", percent(tracker.completed)>>)
    /\ tracker' = [tracker EXCEPT !.state = "receiving"]
    /\ UNCHANGED <<search, pc, entryVars, inVars, palVars, outVars, kdVars, points,
                   quantizedPoints, progress, workers, spawned, wg, progressChan, writers>>

\* the tracking goroutine: the range over the closed, drained channel ends
TrackerEnd ==
    /\ tracker.state = "receiving"
    /\ progressChan.len = 0
    /\ progressChan.closed
    /\ tracker' = [tracker EXCEPT !.state = "ended"]
    /\ UNCHANGED <<auxVars, pc, entryVars, inVars, palVars, outVars, kdVars, points,
                   quantizedPoints, progress, workers, spawned, wg, progressChan,
                   reports, writers>>

\* wg.Wait() returns when the counter is zero
Wait_skipped(counter) == TRUE
Wait(counter) == counter = 0

\* wg.Wait(), close(progressChan) when a callback was passed, and the return
\* to the pipeline, which calls the callback before the border stage
RasterJoin ==
    /\ pc = "raster_wait"
    /\ Wait(wg)
    /\ progressChan' = IF progress THEN [progressChan EXCEPT !.closed = TRUE]
                       ELSE progressChan
    /\ pc' = IF progress THEN "progress_70" ELSE "borders"
    /\ UNCHANGED <<auxVars, entryVars, inVars, palVars, outVars, kdVars, points,
                   quantizedPoints, progress, workers, spawned, wg, tracker,
                   reports, writers>>

\* the calls of the callback the pipeline goroutine makes itself: where it
\* is during the call, the arguments, and where it goes on
ProgressCalls ==
    << [at |-> "progress_0", stage |-> "Generating color palette", percent |-> 0,
        next |-> "palette_start"],
       [at |-> "progress_5", stage |-> "Detecting edges", percent |-> 5,
        next |-> "sampler_edges"],
       [at |-> "progress_15", stage |-> "Sampling points", percent |-> 15,
        next |-> "sampler_draw"],
       [at |-> "progress_20", stage |-> "Quantizing points", percent |-> 20,
        next |-> "quantize"],
       [at |-> "progress_25", stage |-> "Building spatial index", percent |-> 25,
        next |-> "raster_index"],
       [at |-> "progress_30", stage |-> "Creating regions", percent |-> 30,
        next |-> "raster_setup"],
       [at |-> "progress_70", stage |-> "Drawing borders", percent |-> 70,
        next |-> "borders"],
       [at |-> "progress_85", stage |-> "Adding numbers", percent |-> 85,
        next |-> "numbers"],
       [at |-> "progress_100", stage |-> "Complete", percent |-> 100,
        next |-> "converted"] >>

ProgressPoints == {ProgressCalls[i].at : i \in 1 .. Len(ProgressCalls)}

CallAt(at) == ProgressCalls[CHOOSE i \in 1 .. Len(ProgressCalls) : ProgressCalls[i].at = at]

\* the arguments of the call, with the labeling stage reported at 60
Milestone_labelingAt60(at) ==
    <<CallAt(at).stage, IF at = "progress_85" THEN 60 ELSE CallAt(at).percent>>

\* the arguments of the call the pipeline makes at a progress point
Milestone(at) == <<CallAt(at).stage, CallAt(at).percent>>

AfterMilestone(at) == CallAt(at).next

\* the listener returns from a call the pipeline made
PipelineProgressReturn ==
    /\ pc \in ProgressPoints
    /\ CallbackReturns("pipeline")
    /\ sse' = AfterCallback("pipeline")
    /\ reports' = Append(reports, Milestone(pc))
    /\ pc' = AfterMilestone(pc)
    /\ UNCHANGED <<search, entryVars, inVars, palVars, outVars, kdVars, points,
                   quantizedPoints, progress, workers, spawned, wg, progressChan,
                   tracker, writers>>

\* isBorderPixel: the right or the down neighbour, when in bounds, has
\* another nearest seed
isBorderPixel(x, y, w, h, pts) ==
    LET current == findNearestPoint(x, y, pts)
    IN \/ x + 1 < w /\ findNearestPoint(x + 1, y, pts) # current
       \/ y + 1 < h /\ findNearestPoint(x, y + 1, pts) # current

\* addVoronoiBorders: a copy of the raster with every border pixel black
addVoronoiBorders(ras, pts, w, h) ==
    [idx \in PixelIndices(w, h) |->
        IF isBorderPixel(idx % w, idx \div w, w, h, pts) THEN Black ELSE ras[idx]]

\* convertToPaintByNumbersWithProgress, step 5: the border stage reads the
\* raster the rasterizer returned
DrawBorders ==
    /\ pc = "borders"
    /\ bordered' = addVoronoiBorders(voronoi, quantizedPoints, img.w, img.h)
    /\ pc' = "borders_drawn"
    /\ UNCHANGED <<auxVars, entryVars, inVars, palVars, kdVars, parVars, points, quantizedPoints,
                   voronoi, colorIndices, result, regions, stamps, fills>>

(* Bounds of the parallel rasterizer specification *)
MaxRows == 9

ParSizes == {<<1, h>> : h \in 0 .. MaxRows} \cup {<<2, 3>>, <<0, 2>>}

\* the sizes that are also rasterized with a progress callback
ListenerSizes == {<<1, 2>>, <<1, 5>>}

\* two seeds, the second below the first
ParSeeds(h) ==
    << Point(0, 0, Red, 0), Point(0, IF h > 0 THEN h - 1 ELSE 0, Blue, 1) >>

ParallelInit ==
    /\ pc = "raster_call"
    /\ \E size \in ParSizes :
          /\ img = Image(size[1], size[2], <<>>)
          /\ quantizedPoints = ParSeeds(size[2])
          /\ progress \in IF size \in ListenerSizes THEN BOOLEAN ELSE {FALSE}
    /\ points = quantizedPoints
    /\ numPoints = 2
    /\ numColors = 2
    /\ parStart
    /\ auxIdle
    /\ palIdle
    /\ kdIdle
    /\ optIdle
    /\ outIdle
    /\ entryIdle

ParallelNext ==
    \/ RasterNew
    \/ RasterIndex
    \/ RasterSetup
    \/ RasterSpawn
    \/ \E w \in WorkerIds : WorkerSet(w)
    \/ \E w \in WorkerIds : WorkerSend(w)
    \/ \E w \in WorkerIds : WorkerDone(w)
    \/ TrackerReceive
    \/ TrackerProgressReturn
    \/ TrackerEnd
    \/ RasterJoin
    \/ PipelineProgressReturn
    \/ DrawBorders

SpecParallel == ParallelInit /\ [][ParallelNext]_vars

\* the rows a started worker loops over: sy .. ey-1
WorkerRows(w) == workers[w].sy .. (workers[w].ey - 1)

Started == {w \in WorkerIds : workers[w].state # "unspawned"}

\* the rasterizer has returned to the pipeline
Joined == pc \in {"progress_70", "borders", "borders_drawn"}

\* C13: the row ranges of the 8 workers are intervals inside 0..height-1, no
\* row is in two of them and, once all are started, every row is in one; at
\* no moment has a pixel been written twice, and when the rasterizer returns
\* every pixel has been written exactly once.
C13_RowsPartitioned ==
    /\ \A w \in Started :
          /\ workers[w].sy = startY(w, img.h) /\ workers[w].ey = endY(w, img.h)
          /\ workers[w].sy < workers[w].ey =>
                /\ 0 <= workers[w].sy /\ workers[w].ey <= img.h
                /\ w > 0 => workers[w].sy = workers[w - 1].ey
    /\ \A w1 \in Started, w2 \in Started :
          w1 < w2 /\ workers[w1].sy < workers[w1].ey /\ workers[w2].sy < workers[w2].ey
              => workers[w1].ey <= workers[w2].sy
    /\ spawned = numWorkers =>
          \A r \in 0 .. (img.h - 1) :
              \E w \in WorkerIds : workers[w].sy <= r /\ r < workers[w].ey
    /\ pc # "raster_call" => \A idx \in PixelIndices(img.w, img.h) : Len(writers[idx]) <= 1
    /\ Joined => \A idx \in PixelIndices(img.w, img.h) : Len(writers[idx]) = 1

\* a height above 8 that 8 does not divide, rasterized and returned, with a
\* worker that had two rows, one that had one and one that had none
C13_Witness ==
    /\ Joined
    /\ img.h = 9 /\ img.w = 1
    /\ Cardinality(WorkerRows(0)) = 2 /\ Cardinality(WorkerRows(4)) = 1
    /\ WorkerRows(7) = {}
    /\ writers[8] = <<4>>

\* C14: when createVoronoiDiagramWithProgress has returned, and when the
\* border stage runs and after it, every worker has finished and every pixel
\* holds the colour of the seed FindNearest gives it; the border stage worked
\* on that raster.
C14_JoinBeforeBorders ==
    Joined =>
        /\ \A w \in WorkerIds : workers[w].state = "exited"
        /\ voronoi = Raster(quantizedPoints, kdtree, img.w, img.h)
        /\ pc = "borders_drawn" =>
              bordered = addVoronoiBorders(Raster(quantizedPoints, kdtree, img.w, img.h),
                                           quantizedPoints, img.w, img.h)

C14_Witness ==
    /\ pc = "borders_drawn"
    /\ img.h = 9 /\ img.w = 1
    /\ \A w \in WorkerIds : workers[w].state = "exited"
    /\ voronoi[0] = Red /\ voronoi[8] = Blue
    /\ bordered[4] = Black

\* the pipeline is inside a call of the callback: it goes on when the
\* listener returns
PipelineInCallback == pc \in {"progress_25", "progress_30", "progress_70"}

\* a worker is at a send that cannot complete
WorkerBlocked(w) ==
    /\ workers[w].state = "sending"
    /\ progressChan.len >= numWorkers

\* without a callback nothing is reported, no tracking goroutine is started
\* and nothing is sent
NoListenerNoReport ==
    ~progress =>
        /\ reports = <<>>
        /\ tracker = NoTracker
        /\ progressChan = NoChan

\* a worker's send never waits: the buffer has room for all eight
C15_WorkersNeverWait == \A w \in WorkerIds : ~WorkerBlocked(w)

\* C15: neither the pipeline nor a worker ever waits for the listener, and
\* without a listener reporting does nothing.
C15_ReportingNeverBlocks ==
    /\ ~PipelineInCallback
    /\ \A w \in WorkerIds : ~WorkerBlocked(w)
    /\ NoListenerNoReport

\* the reports the tracking goroutine made: the stage is "Creating regions"
\* as in the milestone at 30 the pipeline reports itself
TrackerReports ==
    SelectSeq(reports, LAMBDA r : r[1] = "Creating regions" /\ r[2] # 30)

\* the workers that are past their send on progressChan
Sent == {w \in WorkerIds : workers[w].state \in {"exiting", "exited"}}

\* C21: with a listener every worker sends one value, on completion; the
\* tracking goroutine reports "Creating regions" once per value received,
\* with the percents 35, 40, ..., 70 in this order, whatever the order the
\* workers finish in, and when it ends it has made exactly 8 reports.
C21_EightRisingReports ==
    progress =>
        /\ Cardinality(Sent) = progressChan.len + tracker.completed
        /\ Len(TrackerReports) =
              tracker.completed - (IF tracker.state = "reporting" THEN 1 ELSE 0)
        /\ \A i \in 1 .. Len(TrackerReports) :
              TrackerReports[i] = <<"Creating regions", <<35, 40, 45, 50, 55, 60, 65, 70>>[i]>>
        /\ tracker.state = "ended" =>
              /\ Len(TrackerReports) = 8
              /\ \A w \in WorkerIds : workers[w].state = "exited"

\* all eight reports made and the tracking goroutine ended
C21_Witness ==
    /\ progress
    /\ img.h = 5
    /\ tracker.state = "ended"
    /\ Len(TrackerReports) = 8
    /\ TrackerReports[1][2] = 35 /\ TrackerReports[8][2] = 70

\* the first report made while worker 0 still has rows to write: a later
\* worker finished first
C21_OutOfOrderFinish ==
    /\ progress
    /\ Len(TrackerReports) = 1
    /\ workers[0].state = "running"
    /\ workers[7].state = "exited"

----------------------------------------------------------------------------
(* convertToPaintByNumbersWithProgress from its call to its return, with    *)
(* the parallel rasterizer above as its step 4.  The palette is built by    *)
(* GeneratePalette and KMStart; the images are small enough for the sample  *)
(* not to exceed the palette size.                                          *)

\* the first callback call of the pipeline
ConvertCall ==
    /\ pc = "convert_call"
    /\ pc' = IF progress THEN "progress_0" ELSE "palette_start"
    /\ UNCHANGED <<auxVars, entryVars, parVars, inVars, palVars, outVars, kdVars, points,
                   quantizedPoints>>

\* generateAdaptiveVoronoiPoints up to its first callback call
SamplerCall ==
    /\ pc = "palette_done"
    /\ pc' = IF progress THEN "progress_5" ELSE "sampler_edges"
    /\ UNCHANGED <<auxVars, entryVars, parVars, inVars, palVars, outVars, kdVars, points,
                   quantizedPoints>>

\* the edge map, the weights and the cumulative array (values of the image
\* alone, computed again where they are used), then the second callback call
SamplerEdges ==
    /\ pc = "sampler_edges"
    /\ pc' = IF progress THEN "progress_15" ELSE "sampler_draw"
    /\ UNCHANGED <<auxVars, entryVars, parVars, inVars, palVars, outVars, kdVars, points,
                   quantizedPoints>>

\* the sampling loop and the return to the pipeline, which calls the callback
\* before quantizing
SamplerDraw ==
    /\ pc = "sampler_draw"
    /\ IF numPoints > 0 /\ img.w = 0
       THEN /\ pc' = "panicked"
            /\ UNCHANGED points
       ELSE /\ \E cumulative \in {Cumulative(img)} :
                 \E targets \in [1..numPoints -> DrawTargets(cumulative)] :
                    points' = generateAdaptiveVoronoiPoints(img, numPoints, cumulative, targets)
            /\ pc' = IF progress THEN "progress_20" ELSE "quantize"
    /\ UNCHANGED <<auxVars, entryVars, parVars, inVars, palVars, outVars, kdVars, quantizedPoints>>

\* step 3: quantizePoints, then the rasterizer is called
QuantizeStage ==
    /\ pc = "quantize"
    /\ quantizedPoints' = quantizePoints(points, palette)
    /\ pc' = "raster_call"
    /\ UNCHANGED <<auxVars, entryVars, parVars, inVars, palVars, outVars, kdVars, points>>

\* the callback call between the border stage and the labeling stage
LabelCall ==
    /\ pc = "borders_drawn"
    /\ pc' = IF progress THEN "progress_85" ELSE "numbers"
    /\ UNCHANGED <<auxVars, entryVars, parVars, inVars, palVars, outVars, kdVars, points,
                   quantizedPoints>>

\* step 6: addRegionNumbers, then the last callback call or the return
AddRegionNumbers ==
    /\ pc = "numbers"
    /\ \E found \in {findRegions(kdtree, img.w, img.h)} :
          /\ regions' = found.regions
          /\ fills' = found.fills
          /\ stamps' = RegionStamps(found.regions)
          /\ result' = drawNumbers(bordered, stamps', img.w, img.h)
    /\ pc' = IF progress THEN "progress_100" ELSE "converted"
    /\ UNCHANGED <<auxVars, entryVars, parVars, inVars, palVars, kdVars, points, quantizedPoints,
                   voronoi, colorIndices, bordered>>

\* the requests: a one-pixel image with two seeds, and two pixels of
\* different colours with one seed
PipelineCases ==
    { [img |-> Solid(1, 1, Red), numPoints |-> 2],
      [img |-> HSplit(1, 2, Red, Blue), numPoints |-> 1] }

PipelineInit ==
    /\ pc = "convert_call"
    /\ \E c \in PipelineCases : img = c.img /\ numPoints = c.numPoints
    /\ numColors = 12
    /\ progress \in BOOLEAN
    /\ parStart
    /\ auxIdle
    /\ points = <<>>
    /\ quantizedPoints = <<>>
    /\ palIdle
    /\ kdIdle
    /\ optIdle
    /\ outIdle
    /\ entryIdle

PipelineNext ==
    \/ ConvertCall
    \/ GeneratePalette
    \/ KMStart
    \/ SamplerCall
    \/ SamplerEdges
    \/ SamplerDraw
    \/ QuantizeStage
    \/ RasterNew
    \/ RasterIndex
    \/ RasterSetup
    \/ RasterSpawn
    \/ \E w \in WorkerIds : WorkerSet(w)
    \/ \E w \in WorkerIds : WorkerSend(w)
    \/ \E w \in WorkerIds : WorkerDone(w)
    \/ TrackerReceive
    \/ TrackerProgressReturn
    \/ TrackerEnd
    \/ RasterJoin
    \/ PipelineProgressReturn
    \/ DrawBorders
    \/ LabelCall
    \/ AddRegionNumbers

SpecPipeline == PipelineInit /\ [][PipelineNext]_vars

\* the reports of the pipeline goroutine itself, in the order the listener
\* got them
StageReports ==
    SelectSeq(reports, LAMBDA r : ~(r[1] = "Creating regions" /\ r[2] # 30))

Percents(rs) == [i \in 1 .. Len(rs) |-> rs[i][2]]

NonDecreasing(ns) == \A i \in 1 .. (Len(ns) - 1) : ns[i] <= ns[i + 1]

CompleteLastAndOnce(rs) ==
    \A i \in 1 .. Len(rs) : rs[i] = <<"Complete", 100>> <=> (pc = "converted" /\ i = Len(rs))

\* the position of a report in the sequence of reports
Positions(r) == {i \in 1 .. Len(reports) : reports[i] = r}

\* C22: the reports a listener receives are edge detection 5, sampling 15,
\* index build 25, rasterization 30 up to 70, borders 70, labeling 85 and
\* done 100; they come in the order of the stages with non-decreasing
\* percent, and done 100 comes once, after every other report.
C22_MilestonesInOrder ==
    /\ \A i \in 1 .. Len(reports) :
          reports[i] \in
              { <<"Detecting edges", 5>>, <<"Sampling points", 15>>,
                <<"Building spatial index", 25>>, <<"Drawing borders", 70>>,
                <<"Adding numbers", 85>>, <<"Complete", 100>> }
              \cup { <<"Creating regions", n>> : n \in 30 .. 70 }
    /\ NonDecreasing(Percents(reports))
    /\ Cardinality(Positions(<<"Complete", 100>>)) <= 1
    /\ Positions(<<"Complete", 100>>) \subseteq {Len(reports)}
    /\ (pc = "converted" /\ progress) => Positions(<<"Complete", 100>>) # {}

\* a report of the rasterization stage made after the report of the border
\* stage: the percent goes down from 70 to 35
C22_RegionsAfterBorders ==
    \E i \in 1 .. (Len(reports) - 1) :
        /\ reports[i] = <<"Drawing borders", 70>>
        /\ reports[i + 1] = <<"Creating regions", 35>>

\* a report of the rasterization stage made after done 100
C22_RegionsAfterComplete ==
    /\ pc = "converted"
    /\ \E i \in 1 .. (Len(reports) - 1) :
          /\ reports[i] = <<"Complete", 100>>
          /\ reports[i + 1][1] = "Creating regions"

\* the nine calls of the pipeline goroutine, in the order of the stages
NineMilestones ==
    << <<"Generating color palette", 0>>, <<"Detecting edges", 5>>,
       <<"Sampling points", 15>>, <<"Quantizing points", 20>>,
       <<"Building spatial index", 25>>, <<"Creating regions", 30>>,
       <<"Drawing borders", 70>>, <<"Adding numbers", 85>>, <<"Complete", 100>> >>

\* what holds of the reports the pipeline goroutine makes itself: they are,
\* in this order, palette 0, edge detection 5, sampling 15, quantizing 20,
\* index build 25, rasterization 30, borders 70, labeling 85 and done 100;
\* when the pipeline has returned all nine have been made.
StageReportsInOrder ==
    /\ Len(StageReports) <= 9
    /\ \A i \in 1 .. Len(StageReports) : StageReports[i] = NineMilestones[i]
    /\ NonDecreasing(Percents(StageReports))
    /\ CompleteLastAndOnce(StageReports)
    /\ (pc = "converted" /\ progress) => StageReports = NineMilestones
    /\ ~progress => reports = <<>>

\* the calls of the callback that are under way or still to come from values
\* already sent by the workers
CallsOutstanding ==
    \/ pc \in ProgressPoints
    \/ tracker.state = "reporting"
    \/ progress /\ progressChan.len > 0

\* C27: when convertToPaintByNumbersWithProgress has returned no call of the
\* callback is under way or still to come, and every "Creating regions"
\* report was made before the "Drawing borders" report and before
\* "Complete".
C27_ReportsDoneAtReturn ==
    /\ pc = "converted" => ~CallsOutstanding
    /\ \A i \in 1 .. Len(reports) : \A j \in 1 .. Len(reports) :
          (reports[i][1] = "Creating regions"
              /\ reports[j] \in {<<"Drawing borders", 70>>, <<"Complete", 100>>}) => i < j

\* the pipeline has returned and the tracking goroutine has not made a
\* single one of its eight reports
C27_ReturnedBeforeAnyReport ==
    /\ pc = "converted" /\ progress
    /\ tracker = [state |-> "receiving", completed |-> 0]
    /\ progressChan.len = 8

----------------------------------------------------------------------------
(* handleConvertSSE: the handler goroutine, the goroutine it starts for the  *)
(* pipeline, and the tracking goroutine of the rasterizer, all writing to    *)
(* the one http.ResponseWriter.  sse.writing holds the goroutines that are   *)
(* inside Fprintf/Flush on it, sse.terminal the terminal event whose write   *)
(* has begun, and sse.late whether the write of a progress event has begun   *)
(* after that of the terminal event, or after the return of the handler.     *)

\* the goroutines that call progressCallback
Callers == {"pipeline", "tracker"}

InCall(who) ==
    IF who = "pipeline" THEN pc \in ProgressPoints ELSE tracker.state = "reporting"

BeginWrite(who, event) ==
    [sse EXCEPT !.writing = @ \cup {who},
                !.terminal = IF event = "progress" THEN @ ELSE event,
                !.late = IF event # "progress" THEN @
                         ELSE IF sse.handler = "returned" THEN "after_return"
                         ELSE IF sse.terminal # "none" /\ @ = "none" THEN "after_terminal"
                         ELSE @]

\* progressCallback: progressMu.Lock(), then the write of the progress event
\* begins
CallbackLock(who) ==
    /\ sse.handler # "none"
    /\ InCall(who)
    /\ sse.mu = "free"
    /\ sse' = [BeginWrite(who, "progress") EXCEPT !.mu = who]
    /\ UNCHANGED <<search, pc, entryVars, parVars, inVars, palVars, outVars, kdVars,
                   points, quantizedPoints>>

\* the goroutine of the handler: the pipeline has returned, the result is
\* sent on resultChan (capacity 1)
ResultSend ==
    /\ sse.run = "running"
    /\ pc = "converted"
    /\ sse' = [sse EXCEPT !.run = "sent"]
    /\ pc' = "result_sent"
    /\ UNCHANGED <<search, entryVars, parVars, inVars, palVars, outVars, kdVars,
                   points, quantizedPoints>>

\* select, case <-ctx.Done(): the five minutes are over or the client has
\* gone; sendSSEError(w, "Request timeout", flusher) begins its write
SelectTimeout ==
    /\ sse.handler = "select"
    /\ sse' = [BeginWrite("handler", "error") EXCEPT !.handler = "writing"]
    /\ UNCHANGED <<search, pc, entryVars, parVars, inVars, palVars, outVars, kdVars,
                   points, quantizedPoints>>

\* select, case res := <-resultChan: the result is encoded and the write of
\* the done event begins
SelectResult ==
    /\ sse.handler = "select"
    /\ sse.run = "sent"
    /\ sse' = [BeginWrite("handler", "done") EXCEPT !.handler = "writing", !.run = "received"]
    /\ UNCHANGED <<search, pc, entryVars, parVars, inVars, palVars, outVars, kdVars,
                   points, quantizedPoints>>

\* the terminal event is flushed and handleConvertSSE returns
HandlerReturn ==
    /\ sse.handler = "writing"
    /\ sse' = [sse EXCEPT !.handler = "returned", !.writing = @ \ {"handler"}]
    /\ UNCHANGED <<search, pc, entryVars, parVars, inVars, palVars, outVars, kdVars,
                   points, quantizedPoints>>

\* a request of one pixel, one seed, 12 colours, after parseRequest and the
\* go statement
SSEInit ==
    /\ pc = "convert_call"
    /\ img = Solid(1, 1, Red)
    /\ numPoints = 1
    /\ numColors = 12
    /\ progress = TRUE
    /\ parStart
    /\ search = NoSearch
    /\ sse = [NoHandler EXCEPT !.handler = "select", !.run = "running"]
    /\ points = <<>>
    /\ quantizedPoints = <<>>
    /\ palIdle
    /\ kdIdle
    /\ optIdle
    /\ outIdle
    /\ entryIdle

SSENext ==
    \/ PipelineNext
    \/ \E who \in Callers : CallbackLock(who)
    \/ ResultSend
    \/ SelectTimeout
    \/ SelectResult
    \/ HandlerReturn

SpecSSE == SSEInit /\ [][SSENext]_vars

\* C28: in the SSE handler the terminal event (done or error, "Request
\* timeout" included) is the last thing written to the response: no progress
\* event is written after it or after handleConvertSSE has returned, and no
\* two writes to the response overlap, whatever the interleaving of the
\* handler, the pipeline goroutine and the tracking goroutine.
C28_TerminalEventLast ==
    /\ Cardinality(sse.writing) <= 1
    /\ sse.late = "none"
    /\ sse.handler = "returned" => sse.writing = {}

\* the done event is being written while the tracking goroutine is inside
\* its write of a progress event
C28_DoneOverlapsProgress ==
    /\ sse.writing = {"handler", "tracker"}
    /\ sse.terminal = "done"

\* after the timeout error the pipeline goroutine writes a progress event,
\* the handler having returned
C28_ProgressAfterTimeout ==
    /\ sse.terminal = "error"
    /\ sse.handler = "returned"
    /\ sse.late = "after_return"
    /\ sse.writing = {"pipeline"}

\* the write of a progress event began after that of the done event
C28_ProgressAfterDone ==
    /\ sse.terminal = "done"
    /\ sse.late # "none"
    /\ pc = "result_sent"

----------------------------------------------------------------------------
(* binarySearch on its own: every non-empty non-decreasing array of up to   *)
(* MaxSearchLen entries in 0 .. MaxCumulative and every value from below    *)
(* the first possible entry to above the last.  The source compares         *)
(* float64 values; the search depends on the order of the values only, so   *)
(* integers stand for them.                                                 *)

MaxSearchLen == 4
MaxCumulative == 4

SearchValues == -1 .. (MaxCumulative + 1)

IsNonDecreasing(arr) == \A i \in 1 .. (Len(arr) - 1) : arr[i] <= arr[i + 1]

SearchInit ==
    /\ pc = "search_call"
    /\ \E n \in 1 .. MaxSearchLen : \E arr \in [1 .. n -> 0 .. MaxCumulative] :
          \E value \in SearchValues :
             /\ IsNonDecreasing(arr)
             /\ search = [arr |-> arr, value |-> value, index |-> 0]
    /\ sse = NoHandler
    /\ img = NoImage
    /\ numPoints = 0
    /\ numColors = 0
    /\ points = <<>>
    /\ quantizedPoints = <<>>
    /\ palIdle
    /\ kdIdle
    /\ optIdle
    /\ outIdle
    /\ entryIdle
    /\ parIdle

\* a call of binarySearch(arr, value)
Search ==
    /\ pc = "search_call"
    /\ search' = [search EXCEPT !.index = binarySearch(search.arr, search.value)]
    /\ pc' = "search_done"
    /\ UNCHANGED <<sse, entryVars, parVars, inVars, outVars, palVars, kdVars, points,
                   quantizedPoints>>

SearchNext == Search

SpecSearch == SearchInit /\ [][SearchNext]_vars

\* the 0-based indices of the entries that are >= the value
AtLeast(arr, value) == {i \in 0 .. (Len(arr) - 1) : arr[i + 1] >= value}

\* C23: for every non-empty non-decreasing cumulative array and every drawn
\* value binarySearch returns an index in 0 .. len-1, and when the value is
\* at most the last entry it is the smallest index whose entry is >= the
\* value.
C23_SmallestIndexAtLeast ==
    pc = "search_done" =>
        /\ search.index \in 0 .. (Len(search.arr) - 1)
        /\ search.value <= search.arr[Len(search.arr)] =>
              /\ search.index \in AtLeast(search.arr, search.value)
              /\ \A i \in AtLeast(search.arr, search.value) : search.index <= i

\* a value that equals two entries of the array: the first of them is found
C23_Witness ==
    /\ pc = "search_done"
    /\ search.arr = <<1, 2, 2, 3>>
    /\ search.value = 2
    /\ search.index = 1

\* a value above the last entry: the last index is returned
C23_WitnessAboveLast ==
    /\ pc = "search_done"
    /\ search.arr = <<1, 3>>
    /\ search.value = 4
    /\ search.index = 1

----------------------------------------------------------------------------
(* downsampleImage on its own: every image size up to MaxDownSide and the   *)
(* sizes around the limits the entry points accept, with every maximum up   *)
(* to MaxDownDim and the two ends of the accepted range.  The pixels of an  *)
(* input are a marker: a resized image is a new image without it.           *)

MaxDownSide == 6
MaxDownDim == 4

DecodedPixels == <<White>>

DownCases ==
    {<<w, h, m>> : w \in 0 .. MaxDownSide, h \in 0 .. MaxDownSide, m \in 1 .. MaxDownDim}
    \cup {<<w, h, m>> : w \in {255, 256, 257, 5000}, h \in {1, 256, 257, 3000}, m \in {256}}
    \cup {<<w, h, m>> : w \in {4096, 4097, 5000}, h \in {3000, 4096, 4097}, m \in {4096}}

DownsampleInit ==
    /\ pc = "ds_call"
    /\ \E c \in DownCases :
          /\ img = Image(c[1], c[2], DecodedPixels)
          /\ maxDim = c[3]
    /\ request = <<>> /\ errMsg = "" /\ decoded = TRUE
    /\ numPoints = 0
    /\ numColors = 0
    /\ points = <<>>
    /\ quantizedPoints = <<>>
    /\ palIdle
    /\ kdIdle
    /\ optIdle
    /\ outIdle
    /\ parIdle
    /\ auxIdle

\* a call of downsampleImage(img, maxDim)
Downsample ==
    /\ pc = "ds_call"
    /\ result' = downsampleImage(img, maxDim)
    /\ pc' = "ds_done"
    /\ UNCHANGED <<auxVars, entryVars, parVars, inVars, palVars, kdVars, points, quantizedPoints,
                   voronoi, colorIndices, bordered, regions, stamps, fills>>

DownsampleNext == Downsample

SpecDownsample == DownsampleInit /\ [][DownsampleNext]_vars

Fits == img.w <= maxDim /\ img.h <= maxDim

\* C16: downsampleImage returns its input if and only if both sides are at
\* most the maximum; otherwise the side that was the longer one is exactly
\* the maximum and the other is floor(other * maximum / longer), and both
\* sides of the result are at most the maximum.
C16_DownsampleBounds ==
    pc = "ds_done" =>
        /\ result = img <=> Fits
        /\ ~Fits =>
              /\ img.w > img.h =>
                    result.w = maxDim /\ result.h = (img.h * maxDim) \div img.w
              /\ img.h > img.w =>
                    result.h = maxDim /\ result.w = (img.w * maxDim) \div img.h
              /\ img.w = img.h => result.w = maxDim /\ result.h = maxDim
              /\ result.w <= maxDim /\ result.h <= maxDim
              /\ result.w >= 0 /\ result.h >= 0

\* a 5x3 image brought down to a maximum of 4: 4x2, the 2.4 truncated
C16_Witness ==
    /\ pc = "ds_done"
    /\ img.w = 5 /\ img.h = 3 /\ maxDim = 4
    /\ result = Image(4, 2, <<>>)

====
